---- MODULE Spec2Model ----
(***************************************************************************)
(* FieldVision: the live-session turn accumulator / completion detector    *)
(* (app/gemini_service.py, class LiveSession) and the tool-call router     *)
(* with the work-order stores (GeminiLiveService.handle_tool_call,         *)
(* app/fieldvision_agent/tools.py, app/work_orders.py).                    *)
(*                                                                         *)
(* Concurrency is asyncio's: one task runs at a time and gives way only at *)
(* an await that really suspends.  Each action below is the code between   *)
(* two suspension points of one task.                                      *)
(***************************************************************************)
EXTENDS Integers, Sequences, FiniteSets, TLC

---------------------------------------------------------------------------
(* Bounds of the model.                                                    *)

\* inbound stream events the backend sends in one run
MaxResponses == 2
\* parts of one model_turn
MaxParts == 2
\* asyncio tasks of _turn_complete_timer_task that can exist at once
MaxTimerTasks == 3

\* tool calls in one run
MaxCalls == 3
\* seconds the wall clock advances in one run
MaxClock == 2

\* orders the stores hold at most
MaxOrders == 2

\* calls and task steps of the LiveSession objects in one run
MaxSteps == 7
\* messages sent on one stream after the replay
MaxSends == 1

\* records and files in the stores of the safety tool before its last call
MaxEvents == 1
\* messages and downstream steps of the client connection
MaxMessages == 5

---------------------------------------------------------------------------
(* Program constants.                                                      *)

\* LiveSession._turn_complete_timeout: 2.5 s, in ticks of 1.25 s
turn_complete_timeout == 2

\* send_audio: max_chunk_size = 32 * 1024
max_chunk_size == 32768

\* send_video_frame: max_frame_size = 512 * 1024
max_frame_size == 524288

\* send_text: max_text_length
max_text_length == 4000

---------------------------------------------------------------------------
(* State.                                                                  *)

VARIABLES
    ls,                    \* the LiveSession object's fields
    receive_pc,            \* where _receive_loop is suspended
    pending_parts,         \* parts of the response in hand, head first
    pending_turn_complete, \* turn_complete of the response in hand
    nResponses,            \* responses received so far
    nextFrag,              \* id the next text part gets
    sinceFragment,         \* ticks since a content fragment last arrived
    fragTurn,              \* text part -> turn in which it arrived
    histTurn,              \* history entry -> finalization that wrote it
    obs,                   \* observations of the run used by the properties
    active_sessions,       \* GeminiLiveService._active_sessions (its keys)
    pending_work_order,    \* LiveSession.pending_work_order, per session id
    adk_state,             \* ToolContext.state["pending_work_order"], per id
    pending_orders,        \* pending_orders.json
    approved_orders,       \* approved_orders.json
    completed_orders,      \* completed_orders.json
    now,                   \* the wall clock, in seconds
    nCalls,                \* tool calls made so far
    request,               \* per path and session: the request awaiting a badge
    last_call,             \* the last tool call: its arguments and its result
    last_op,               \* the last work-order store operation and its result
    session_histories,     \* GeminiLiveService._session_histories
    live_sessions,         \* the LiveSession objects create_session has built
    streams,               \* the backend streams connect() has asked for
    session_tasks,         \* the asyncio tasks the sessions have created
    nSteps,                \* calls and task steps of the sessions so far
    last_send,             \* the last send_* or disconnect call: its input, what it did
    latest_frames,         \* tools._latest_frames, per key
    evidence_files,        \* the files of static/evidence
    session_events,        \* AuditLogger._session_events, in order of logging
    audit_files,           \* the audit records on disk
    last_tool,             \* the last log_safety_event call and its result
    client,                \* the ClientConnection object's fields
    live_queues,           \* the LiveRequestQueue objects it has created
    downstream_tasks,      \* the _run_downstream tasks it has created
    adk_sessions,          \* ids get_or_create_session has returned for
    outbox,                \* what the websocket was given to send, in order
    camera_feed,           \* active_camera_feeds[user_id]["frame"]
    handling,              \* handle_messages is running
    ws_open,               \* the websocket is open
    uuids,                 \* uuid4 values drawn for session ids
    nClient,               \* messages and downstream steps so far
    last_message           \* the last message handled, and the state it met

turnVars == <<ls, receive_pc, pending_parts, pending_turn_complete,
              nResponses, nextFrag, sinceFragment, fragTurn, histTurn, obs>>

toolVars == <<active_sessions, pending_work_order, adk_state, pending_orders,
              approved_orders, completed_orders, now, nCalls, request,
              last_call>>

opVars == <<last_op>>

connVars == <<session_histories, live_sessions, streams, session_tasks,
              nSteps,
              last_send>>

safetyVars == <<latest_frames, evidence_files, session_events, audit_files,
                last_tool>>

clientVars == <<client, live_queues, downstream_tasks, adk_sessions, outbox,
                camera_feed, handling, ws_open, uuids, nClient, last_message>>

restVars == <<safetyVars, clientVars>>

moreVars == <<opVars, connVars, restVars>>

vars == <<turnVars, toolVars, moreVars>>

---------------------------------------------------------------------------
(* Helpers.                                                                *)

Max(a, b) == IF a >= b THEN a ELSE b

Min(a, b) == IF a <= b THEN a ELSE b

\* states of a timer task other than asleep: there is no such task (never
\* created, cancelled, or finished and forgotten), or it has finished
TaskFree == -1
TaskDone == -2

TimerIds == 1 .. MaxTimerTasks

\* a timer task is asleep when its state is the number of ticks it has slept
Sleeping(st) == st \in 0 .. turn_complete_timeout

SleepingTasks(s) == {t \in TimerIds : Sleeping(s.tasks[t])}

FreeId(tasks) ==
    IF \E t \in TimerIds : tasks[t] = TaskFree
    THEN CHOOSE t \in TimerIds :
             tasks[t] = TaskFree /\ \A u \in TimerIds : tasks[u] = TaskFree => t <= u
    ELSE 1

\* Task.cancel() on the task a handle names; a finished task is unaffected
\* and, no longer named by anything, is dropped with it.
CancelTask(tasks, h) == IF h = 0 THEN tasks ELSE [tasks EXCEPT ![h] = TaskFree]

PartKinds == {"audio", "text"}

PartSeqs == UNION {[1 .. n -> PartKinds] : n \in 0 .. MaxParts}

\* the inbound events: server_content with an optional model_turn and an
\* optional turn_complete signal
Responses ==
    {[model_turn |-> m, kinds |-> k, turn_complete |-> c] :
        m \in BOOLEAN, k \in PartSeqs, c \in BOOLEAN}

---------------------------------------------------------------------------
(* LiveSession.                                                            *)

InitSession ==
    [running |-> TRUE,
     turn_in_progress |-> FALSE,
     current_ai_response_parts |-> <<>>,
     history |-> <<>>,
     turn_complete_timer |-> 0,
     tasks |-> [t \in TimerIds |-> TaskFree],
     on_turn_complete_calls |-> 0,
     on_turn_complete_done |-> 0]

ResetKeepsRunningTimer(s) ==
    IF s.turn_complete_timer # 0 /\ Sleeping(s.tasks[s.turn_complete_timer])
    THEN s
    ELSE LET tasks1 == CancelTask(s.tasks, s.turn_complete_timer)
             id == FreeId(tasks1)
         IN [s EXCEPT !.tasks = [tasks1 EXCEPT ![id] = 0],
                      !.turn_complete_timer = id]

\* _reset_turn_complete_timer: cancel the timer the handle names, start a
\* fresh task and keep its handle.
ResetTurnCompleteTimer(s) ==
    LET tasks1 == CancelTask(s.tasks, s.turn_complete_timer)
        id == FreeId(tasks1)
    IN [s EXCEPT !.tasks = [tasks1 EXCEPT ![id] = 0],
                 !.turn_complete_timer = id]

FinalizeKeepsParts(s) ==
    LET s1 == [s EXCEPT !.tasks = CancelTask(@, s.turn_complete_timer),
                        !.turn_complete_timer = 0]
    IN IF ~s1.turn_in_progress
       THEN s1
       ELSE LET s2 == [s1 EXCEPT !.turn_in_progress = FALSE]
                s3 == IF s2.current_ai_response_parts # <<>>
                      THEN [s2 EXCEPT
                              !.history = Append(@, [role |-> "model",
                                                     parts |-> s2.current_ai_response_parts])]
                      ELSE s2
            IN [s3 EXCEPT !.on_turn_complete_calls = @ + 1]

FinalizeKeepsFlag(s) ==
    LET s1 == [s EXCEPT !.tasks = CancelTask(@, s.turn_complete_timer),
                        !.turn_complete_timer = 0]
    IN IF ~s1.turn_in_progress
       THEN s1
       ELSE LET s3 == IF s1.current_ai_response_parts # <<>>
                      THEN [s1 EXCEPT
                              !.history = Append(@, [role |-> "model",
                                                     parts |-> s1.current_ai_response_parts]),
                              !.current_ai_response_parts = <<>>]
                      ELSE s1
            IN [s3 EXCEPT !.on_turn_complete_calls = @ + 1]

FinalizeNoGuard(s) ==
    LET s1 == [s EXCEPT !.tasks = CancelTask(@, s.turn_complete_timer),
                        !.turn_complete_timer = 0,
                        !.turn_in_progress = FALSE]
        s2 == IF s1.current_ai_response_parts # <<>>
              THEN [s1 EXCEPT
                      !.history = Append(@, [role |-> "model",
                                             parts |-> s1.current_ai_response_parts]),
                      !.current_ai_response_parts = <<>>]
              ELSE s1
    IN [s2 EXCEPT !.on_turn_complete_calls = @ + 1]

\* _finalize_turn up to the point where it awaits on_turn_complete: cancel
\* the timer, return if no turn is in progress, clear the flag, move the
\* accumulated parts into one model entry of history, call the callback.
FinalizeTurn(s) ==
    LET s1 == [s EXCEPT !.tasks = CancelTask(@, s.turn_complete_timer),
                        !.turn_complete_timer = 0]
    IN IF ~s1.turn_in_progress
       THEN s1
       ELSE LET s2 == [s1 EXCEPT !.turn_in_progress = FALSE]
                s3 == IF s2.current_ai_response_parts # <<>>
                      THEN [s2 EXCEPT
                              !.history = Append(@, [role |-> "model",
                                                     parts |-> s2.current_ai_response_parts]),
                              !.current_ai_response_parts = <<>>]
                      ELSE s2
            IN [s3 EXCEPT !.on_turn_complete_calls = @ + 1]

\* _handle_response from a given point to its next suspension: the rest of
\* the parts loop, then the check for the native turn_complete signal.
\* Yields the session, where the receive loop waits next, and the parts left.
HandleFrom(s, parts, tc) ==
    IF parts # <<>>
    THEN [s |-> s, pc |-> "on_" \o Head(parts).kind, parts |-> parts,
          finalized |-> FALSE]
    ELSE IF tc
         THEN LET s1 == FinalizeTurn(s)
              IN [s |-> s1,
                  pc |-> IF s1.on_turn_complete_calls > s.on_turn_complete_calls
                         THEN "on_turn_complete" ELSE "recv",
                  parts |-> <<>>, finalized |-> TRUE]
         ELSE [s |-> s, pc |-> "recv", parts |-> <<>>, finalized |-> FALSE]

TimerTaskNeverFinalizes(s, t, suspends) ==
    [s EXCEPT !.tasks = [@ EXCEPT ![t] = TaskDone]]

\* _turn_complete_timer_task after its sleep: finalize if a turn is in
\* progress.  _finalize_turn cancels the task the handle names, which on
\* this path is the running task itself: the CancelledError is then raised
\* at the first await of on_turn_complete that suspends, and swallowed by
\* the task's except clause.
TurnCompleteTimerTask(s, t, suspends) ==
    IF ~s.turn_in_progress
    THEN [s EXCEPT !.tasks = [@ EXCEPT ![t] = TaskDone]]
    ELSE LET s1 == FinalizeTurn(s)
             invoked == s1.on_turn_complete_calls > s.on_turn_complete_calls
             selfCancelled == s.turn_complete_timer = t
             completes == invoked /\ ~(selfCancelled /\ suspends)
         IN [s1 EXCEPT !.tasks = [@ EXCEPT ![t] = TaskFree],
                       !.on_turn_complete_done = IF completes THEN @ + 1 ELSE @]

---------------------------------------------------------------------------
(* Observations.                                                           *)

InitObs ==
    [finalizeCalls |-> 0,      \* _finalize_turn calls since the last fragment
     entriesSinceFrag |-> 0,   \* history entries appended since then
     notifiedSinceFrag |-> 0,  \* on_turn_complete calls since then
     turnNative |-> FALSE,     \* native signal seen since the turn began
     turnTimer |-> FALSE,      \* timer expiry seen since the turn began
     turnEntries |-> 0,        \* history entries appended since it began
     turnNotified |-> 0,       \* on_turn_complete calls since it began
     fallback |-> FALSE,       \* the timer has finalized a turn
     fallbackAge |-> turn_complete_timeout, \* least sinceFragment at such a moment
     debounced |-> FALSE]      \* a fragment restarted a part-elapsed timer

Cap(n) == Min(n, 2)

\* what one step adds to the observations: s0 before, s1 after; called is
\* the number of _finalize_turn calls it made, by the signal `by'
Observe(o, s0, s1, called, by) ==
    LET dE == Len(s1.history) - Len(s0.history)
        dN == s1.on_turn_complete_calls - s0.on_turn_complete_calls
    IN [o EXCEPT
          !.finalizeCalls = Cap(@ + called),
          !.entriesSinceFrag = Cap(@ + dE),
          !.notifiedSinceFrag = Cap(@ + dN),
          !.turnNative = @ \/ (by = "native"),
          !.turnTimer = @ \/ (by = "timer"),
          !.turnEntries = Cap(@ + dE),
          !.turnNotified = Cap(@ + dN),
          !.fallback = @ \/ (by = "timer" /\ dN > 0),
          !.fallbackAge = IF by = "timer" /\ dN > 0
                          THEN Min(@, sinceFragment) ELSE @]

\* a content fragment arrives: the counts "since the last fragment" restart,
\* and those "since the turn began" restart if it begins a turn
ObserveFragment(o, s0) ==
    LET o1 == [o EXCEPT !.finalizeCalls = 0, !.entriesSinceFrag = 0,
                        !.notifiedSinceFrag = 0,
                        !.debounced = @ \/
                            (s0.turn_complete_timer # 0
                             /\ s0.tasks[s0.turn_complete_timer] \in 1 .. turn_complete_timeout)]
    IN IF s0.turn_in_progress THEN o1
       ELSE [o1 EXCEPT !.turnNative = FALSE, !.turnTimer = FALSE,
                       !.turnEntries = 0, !.turnNotified = 0]

---------------------------------------------------------------------------
(* Actions of the turn machine.                                            *)

InitTurn ==
    /\ ls = InitSession
    /\ receive_pc = "recv"
    /\ pending_parts = <<>>
    /\ pending_turn_complete = FALSE
    /\ nResponses = 0
    /\ nextFrag = 1
    /\ sinceFragment = turn_complete_timeout
    /\ fragTurn = <<>>
    /\ histTurn = <<>>
    /\ obs = InitObs

\* the entries a step appended were written by the finalization just made
NoteEntries(s0, s1) ==
    IF Len(s1.history) > Len(s0.history)
    THEN Append(histTurn, s1.on_turn_complete_calls)
    ELSE histTurn

\* number the text parts of a response, in order
RECURSIVE NumberParts(_, _)
NumberParts(kinds, n) ==
    IF kinds = <<>> THEN <<>>
    ELSE <<[kind |-> Head(kinds),
            frag |-> IF Head(kinds) = "text" THEN n ELSE 0]>>
         \o NumberParts(Tail(kinds), IF Head(kinds) = "text" THEN n + 1 ELSE n)

TextCount(kinds) == Cardinality({i \in DOMAIN kinds : kinds[i] = "text"})

\* _receive_loop takes the next response; _handle_response runs to its
\* first await.
Receive(resp) ==
    /\ receive_pc = "recv"
    /\ ls.running
    /\ nResponses < MaxResponses
    /\ resp.model_turn \/ resp.kinds = <<>>
    /\ LET parts == NumberParts(resp.kinds, nextFrag)
           s1 == IF resp.model_turn
                 THEN ResetTurnCompleteTimer([ls EXCEPT !.turn_in_progress = TRUE])
                 ELSE ls
           r == HandleFrom(s1, parts, resp.turn_complete)
           o1 == IF resp.model_turn THEN ObserveFragment(obs, ls) ELSE obs
       IN /\ ls' = r.s
          /\ receive_pc' = r.pc
          /\ pending_parts' = r.parts
          /\ pending_turn_complete' = (resp.turn_complete /\ r.parts # <<>>)
          /\ nextFrag' = nextFrag + TextCount(resp.kinds)
          /\ fragTurn' = fragTurn \o
                 [i \in 1 .. TextCount(resp.kinds) |-> ls.on_turn_complete_calls + 1]
          /\ sinceFragment' = IF resp.model_turn THEN 0 ELSE sinceFragment
          /\ histTurn' = NoteEntries(ls, r.s)
          /\ obs' = Observe(o1, ls, r.s, IF r.finalized THEN 1 ELSE 0,
                            IF r.finalized THEN "native" ELSE "none")
    /\ nResponses' = nResponses + 1
    /\ UNCHANGED <<toolVars, moreVars>>

\* on_audio returns: the timer is reset and the loop goes on
AudioReturn ==
    /\ receive_pc = "on_audio"
    /\ LET r == HandleFrom(ResetTurnCompleteTimer(ls), Tail(pending_parts),
                           pending_turn_complete)
       IN /\ ls' = r.s
          /\ receive_pc' = r.pc
          /\ pending_parts' = r.parts
          /\ pending_turn_complete' = (pending_turn_complete /\ r.parts # <<>>)
          /\ histTurn' = NoteEntries(ls, r.s)
          /\ obs' = Observe(obs, ls, r.s, IF r.finalized THEN 1 ELSE 0,
                            IF r.finalized THEN "native" ELSE "none")
    /\ UNCHANGED <<nResponses, nextFrag, sinceFragment, fragTurn>>
    /\ UNCHANGED <<toolVars, moreVars>>

\* on_text returns: the part joins the accumulator, the timer is reset and
\* the loop goes on
TextReturn ==
    /\ receive_pc = "on_text"
    /\ LET s1 == [ls EXCEPT !.current_ai_response_parts =
                                Append(@, Head(pending_parts).frag)]
           r == HandleFrom(ResetTurnCompleteTimer(s1), Tail(pending_parts),
                           pending_turn_complete)
       IN /\ ls' = r.s
          /\ receive_pc' = r.pc
          /\ pending_parts' = r.parts
          /\ pending_turn_complete' = (pending_turn_complete /\ r.parts # <<>>)
          /\ histTurn' = NoteEntries(ls, r.s)
          /\ obs' = Observe(obs, ls, r.s, IF r.finalized THEN 1 ELSE 0,
                            IF r.finalized THEN "native" ELSE "none")
    /\ UNCHANGED <<nResponses, nextFrag, sinceFragment, fragTurn>>
    /\ UNCHANGED <<toolVars, moreVars>>

\* on_turn_complete, awaited by the receive loop, returns
TurnCompleteReturn ==
    /\ receive_pc = "on_turn_complete"
    /\ ls' = [ls EXCEPT !.on_turn_complete_done = @ + 1]
    /\ receive_pc' = "recv"
    /\ UNCHANGED <<pending_parts, pending_turn_complete, nResponses, nextFrag,
                   sinceFragment, fragTurn, histTurn, obs>>
    /\ UNCHANGED <<toolVars, moreVars>>

\* a timer task's sleep is over
TimerFire(t, suspends) ==
    /\ ls.tasks[t] = turn_complete_timeout
    /\ suspends => ls.turn_in_progress
    /\ LET s1 == TurnCompleteTimerTask(ls, t, suspends)
       IN /\ ls' = s1
          /\ histTurn' = NoteEntries(ls, s1)
          /\ obs' = Observe(obs, ls, s1, IF ls.turn_in_progress THEN 1 ELSE 0,
                            "timer")
    /\ UNCHANGED <<receive_pc, pending_parts, pending_turn_complete,
                   nResponses, nextFrag, sinceFragment, fragTurn>>
    /\ UNCHANGED <<toolVars, moreVars>>

\* time passes: every sleeping timer is one tick older.  A timer whose
\* sleep is over runs, or is cancelled, before more time passes.
Tick ==
    /\ \A t \in TimerIds : ls.tasks[t] # turn_complete_timeout
    /\ \/ SleepingTasks(ls) # {}
       \/ sinceFragment < turn_complete_timeout
    /\ ls' = [ls EXCEPT !.tasks =
                 [t \in TimerIds |-> IF Sleeping(@[t]) THEN @[t] + 1 ELSE @[t]]]
    /\ sinceFragment' = Min(sinceFragment + 1, turn_complete_timeout)
    /\ UNCHANGED <<receive_pc, pending_parts, pending_turn_complete,
                   nResponses, nextFrag, fragTurn, histTurn, obs>>
    /\ UNCHANGED <<toolVars, moreVars>>

\* the stream ends: the async for of _receive_loop is over
StreamEnd ==
    /\ receive_pc = "recv"
    /\ ls.running
    /\ receive_pc' = "stopped"
    /\ UNCHANGED <<ls, pending_parts, pending_turn_complete, nResponses,
                   nextFrag, sinceFragment, fragTurn, histTurn, obs>>
    /\ UNCHANGED <<toolVars, moreVars>>

\* disconnect(): clear _running, cancel the timer and the receive task
Disconnect ==
    /\ ls.running
    /\ ls' = [ls EXCEPT !.running = FALSE,
                        !.tasks = CancelTask(@, ls.turn_complete_timer),
                        !.turn_complete_timer = 0]
    /\ receive_pc' = "stopped"
    /\ UNCHANGED <<pending_parts, pending_turn_complete, nResponses, nextFrag,
                   sinceFragment, fragTurn, histTurn, obs>>
    /\ UNCHANGED <<toolVars, moreVars>>

NextTurn ==
    \/ \E resp \in Responses : Receive(resp)
    \/ AudioReturn
    \/ TextReturn
    \/ TurnCompleteReturn
    \/ \E t \in TimerIds, suspends \in BOOLEAN : TimerFire(t, suspends)
    \/ Tick
    \/ StreamEnd
    \/ Disconnect

---------------------------------------------------------------------------
(* Dictionaries: a set of <<key, value>> pairs with at most one value per  *)
(* key.  {} is the empty dict.                                             *)

Has(d, k) == \E kv \in d : kv[1] = k

\* dict.get(k, default)
Get(d, k, default) ==
    IF Has(d, k) THEN (CHOOSE kv \in d : kv[1] = k)[2] ELSE default

---------------------------------------------------------------------------
(* Inputs of the tool-call router.                                         *)

Sessions == {"s1", "s2"}

\* arguments of create_work_order as the model may send them: two full
\* requests and one with no argument at all
WorkOrderArgs ==
    {{<<"equipment_id", "pump_3">>, <<"priority", "high">>, <<"description", "leak">>},
     {<<"equipment_id", "fan_1">>, <<"priority", "low">>, <<"description", "noise">>},
     {}}

\* users.json as load_users returns it: one employee who may create work
\* orders, one who may not
Users ==
    {[id |-> "tech_042", role |-> "technician",
      permissions |-> {"create_work_order", "view_manuals"}],
     [id |-> "tech_099", role |-> "apprentice",
      permissions |-> {"view_manuals"}]}

\* employee ids a badge may show: the two of the directory and an unknown one
BadgeIds == {"tech_042", "tech_099", "EMP-123"}

BadgeName == "Alex Rivera"

\* users.get(employee_id): the users with that id (none: not found)
LookupUser(id) == {u \in Users : u.id = id}

---------------------------------------------------------------------------
(* app/work_orders.py                                                      *)

\* generate_order_id: "WO-" and the local time to the second
generate_order_id == now

NewOrderEscalatedNoTarget(equipment_id, priority, description, requested_by, escalate_to) ==
    [order_id |-> generate_order_id,
     status |-> "pending_approval",
     priority |-> priority,
     equipment |-> equipment_id,
     description |-> description,
     requested_by |-> requested_by,
     badge_verified |-> TRUE,
     created_at |-> now,
     approved_at |-> 0,
     escalated_to |-> "None"]

\* the order create_work_order builds (approved_at is set)
NewApprovedOrder(equipment_id, priority, description, requested_by) ==
    [order_id |-> generate_order_id,
     status |-> "approved",
     priority |-> priority,
     equipment |-> equipment_id,
     description |-> description,
     requested_by |-> requested_by,
     badge_verified |-> TRUE,
     created_at |-> now,
     approved_at |-> now,
     escalated_to |-> "None"]

\* the order escalate_work_order builds (it has no approved_at: 0 here)
NewEscalatedOrder(equipment_id, priority, description, requested_by, escalate_to) ==
    [order_id |-> generate_order_id,
     status |-> "pending_approval",
     priority |-> priority,
     equipment |-> equipment_id,
     description |-> description,
     requested_by |-> requested_by,
     badge_verified |-> TRUE,
     created_at |-> now,
     approved_at |-> 0,
     escalated_to |-> escalate_to]

\* what a tool call changes and returns
Outcome(pwo, adk, po, ao, status, order_id) ==
    [pending_work_order |-> pwo, adk_state |-> adk, pending_orders |-> po,
     approved_orders |-> ao, status |-> status, order_id |-> order_id]

RequestedBy(employee_id, employee_name, user) ==
    [id |-> employee_id, name |-> employee_name, role |-> user.role]

---------------------------------------------------------------------------
(* GeminiLiveService.handle_tool_call                                      *)

\* the LiveSession of _active_sessions.get(session_id), if there is one
PendingOf(sid) == IF sid \in active_sessions THEN pending_work_order[sid] ELSE {}

StoreRequest(arguments) ==
    {<<"equipment_id", Get(arguments, "equipment_id", "")>>,
     <<"priority", Get(arguments, "priority", "medium")>>,
     <<"description", Get(arguments, "description", "")>>}

CreateToolMaterializes(sid, arguments) ==
    LET order == NewApprovedOrder(Get(arguments, "equipment_id", ""),
                                  Get(arguments, "priority", "medium"),
                                  Get(arguments, "description", ""),
                                  [id |-> "", name |-> "", role |-> ""])
    IN Outcome(pending_work_order, adk_state, pending_orders,
               Append(approved_orders, order),
               "badge_verification_required", 0)

\* function_name = "create_work_order"
HandleCreateWorkOrder(sid, arguments) ==
    Outcome(IF sid \in active_sessions
            THEN [pending_work_order EXCEPT ![sid] = StoreRequest(arguments)]
            ELSE pending_work_order,
            adk_state, pending_orders, approved_orders,
            "badge_verification_required", 0)

ClearPendingKept(sid) == pending_work_order

\* "if session: session.pending_work_order = {}"
ClearPending(sid) ==
    IF sid \in active_sessions
    THEN [pending_work_order EXCEPT ![sid] = {}]
    ELSE pending_work_order

NotFoundClears(sid, employee_id) ==
    Outcome(IF sid \in active_sessions
            THEN [pending_work_order EXCEPT ![sid] = {}]
            ELSE pending_work_order,
            adk_state, pending_orders, approved_orders, "badge_not_found", 0)

\* the branch "badge_user is None"
BadgeNotFound(sid, employee_id) ==
    Outcome(pending_work_order, adk_state, pending_orders, approved_orders,
            "badge_not_found", 0)

\* function_name = "verify_badge"
HandleVerifyBadge(sid, employee_id, employee_name) ==
    LET pending == PendingOf(sid)
        found == LookupUser(employee_id)
    IN IF found = {}
       THEN BadgeNotFound(sid, employee_id)
       ELSE LET badge_user == CHOOSE u \in found : TRUE
                requested_by == RequestedBy(employee_id, employee_name, badge_user)
            IN IF "create_work_order" \in badge_user.permissions
               THEN LET order == NewApprovedOrder(
                                     Get(pending, "equipment_id", "unknown"),
                                     Get(pending, "priority", "medium"),
                                     Get(pending, "description", ""),
                                     requested_by)
                    IN Outcome(ClearPending(sid), adk_state, pending_orders,
                               Append(approved_orders, order),
                               "authorized", order.order_id)
               ELSE LET order == NewEscalatedOrder(
                                     Get(pending, "equipment_id", "unknown"),
                                     Get(pending, "priority", "medium"),
                                     Get(pending, "description", ""),
                                     requested_by, "sup_007")
                    IN Outcome(ClearPending(sid), adk_state,
                               Append(pending_orders, order), approved_orders,
                               "escalated", order.order_id)

---------------------------------------------------------------------------
(* app/fieldvision_agent/tools.py                                          *)

NoKey == [present |-> FALSE, value |-> {}]

\* tool_context.state.get("pending_work_order", {}) when there is a context
AdkPendingOf(sid, ctx) ==
    IF ctx /\ adk_state[sid].present THEN adk_state[sid].value ELSE {}

\* create_work_order(equipment_id, priority, description, tool_context);
\* the three arguments are required
AdkCreateWorkOrder(sid, arguments, ctx) ==
    Outcome(pending_work_order,
            IF ctx
            THEN [adk_state EXCEPT ![sid] =
                     [present |-> TRUE,
                      value |-> {<<"equipment_id", Get(arguments, "equipment_id", "")>>,
                                 <<"priority", Get(arguments, "priority", "")>>,
                                 <<"description", Get(arguments, "description", "")>>}]]
            ELSE adk_state,
            pending_orders, approved_orders, "badge_verification_required", 0)

\* 'if "pending_work_order" in tool_context.state: ... = {}'
AdkClearPending(sid) ==
    IF adk_state[sid].present
    THEN [adk_state EXCEPT ![sid] = [present |-> TRUE, value |-> {}]]
    ELSE adk_state

\* verify_badge(employee_name, employee_id, department, tool_context).
\* Without a tool context the clearing of the pending request raises
\* AttributeError, after the order is stored: the call returns no result.
AdkVerifyBadge(sid, employee_id, employee_name, ctx) ==
    LET pending == AdkPendingOf(sid, ctx)
        found == LookupUser(employee_id)
    IN IF found = {}
       THEN Outcome(pending_work_order, adk_state, pending_orders,
                    approved_orders, "badge_not_found", 0)
       ELSE LET badge_user == CHOOSE u \in found : TRUE
                requested_by == RequestedBy(employee_id, employee_name, badge_user)
            IN IF "create_work_order" \in badge_user.permissions
               THEN LET order == NewApprovedOrder(
                                     Get(pending, "equipment_id", "unknown"),
                                     Get(pending, "priority", "medium"),
                                     Get(pending, "description", ""),
                                     requested_by)
                    IN IF ctx
                       THEN Outcome(pending_work_order, AdkClearPending(sid),
                                    pending_orders, Append(approved_orders, order),
                                    "authorized", order.order_id)
                       ELSE Outcome(pending_work_order, adk_state,
                                    pending_orders, Append(approved_orders, order),
                                    "AttributeError", 0)
               ELSE LET order == NewEscalatedOrder(
                                     Get(pending, "equipment_id", "unknown"),
                                     Get(pending, "priority", "medium"),
                                     Get(pending, "description", ""),
                                     requested_by, "sup_007")
                    IN IF ctx
                       THEN Outcome(pending_work_order, AdkClearPending(sid),
                                    Append(pending_orders, order), approved_orders,
                                    "escalated", order.order_id)
                       ELSE Outcome(pending_work_order, adk_state,
                                    Append(pending_orders, order), approved_orders,
                                    "AttributeError", 0)

---------------------------------------------------------------------------
(* Actions of the tool-call router.                                        *)

Paths == {"live", "adk"}

NoCall ==
    [path |-> "none", fn |-> "none", sid |-> "none", ctx |-> FALSE,
     arguments |-> {}, employee_id |-> "", pending_before |-> {},
     requested |-> FALSE, request_before |-> {}, retried |-> FALSE,
     status |-> "none", order_id |-> 0]

NoRequest == [set |-> FALSE, value |-> {}, retried |-> FALSE]

InitTools ==
    /\ active_sessions = {}
    /\ pending_work_order = [sid \in Sessions |-> {}]
    /\ adk_state = [sid \in Sessions |-> NoKey]
    /\ pending_orders = <<>>
    /\ approved_orders = <<>>
    /\ completed_orders = <<>>
    /\ now = 1
    /\ nCalls = 0
    /\ request = [p \in Paths |-> [sid \in Sessions |-> NoRequest]]
    /\ last_call = NoCall

\* the state a tool call leaves
Apply(out) ==
    /\ pending_work_order' = out.pending_work_order
    /\ adk_state' = out.adk_state
    /\ pending_orders' = out.pending_orders
    /\ approved_orders' = out.approved_orders
    /\ nCalls' = nCalls + 1
    /\ UNCHANGED <<active_sessions, completed_orders, now>>

\* is there a session object (live) or a tool context (adk) holding state
Holds(path, sid, ctx) == IF path = "live" THEN sid \in active_sessions ELSE ctx

PendingBefore(path, sid, ctx) ==
    IF path = "live" THEN PendingOf(sid) ELSE AdkPendingOf(sid, ctx)

\* create_work_order arrives as a tool call
CreateWorkOrderCall(path, sid, arguments, ctx) ==
    /\ nCalls < MaxCalls
    /\ path = "live" => ctx
    /\ path = "adk" => arguments # {}
    /\ LET out == IF path = "live"
                  THEN HandleCreateWorkOrder(sid, arguments)
                  ELSE AdkCreateWorkOrder(sid, arguments, ctx)
       IN /\ Apply(out)
          /\ last_call' =
                 [path |-> path, fn |-> "create_work_order", sid |-> sid,
                  ctx |-> ctx, arguments |-> arguments, employee_id |-> "",
                  pending_before |-> PendingBefore(path, sid, ctx),
                  requested |-> request[path][sid].set,
                  request_before |-> request[path][sid].value,
                  retried |-> FALSE,
                  status |-> out.status, order_id |-> out.order_id]
          /\ request' =
                 IF Holds(path, sid, ctx)
                 THEN [request EXCEPT ![path][sid] =
                          [set |-> TRUE, value |-> arguments, retried |-> FALSE]]
                 ELSE request
    /\ UNCHANGED <<turnVars, moreVars>>

\* verify_badge arrives as a tool call
VerifyBadgeCall(path, sid, employee_id, ctx) ==
    /\ nCalls < MaxCalls
    /\ path = "live" => ctx
    /\ LET out == IF path = "live"
                  THEN HandleVerifyBadge(sid, employee_id, BadgeName)
                  ELSE AdkVerifyBadge(sid, employee_id, BadgeName, ctx)
       IN /\ Apply(out)
          /\ last_call' =
                 [path |-> path, fn |-> "verify_badge", sid |-> sid,
                  ctx |-> ctx, arguments |-> {}, employee_id |-> employee_id,
                  pending_before |-> PendingBefore(path, sid, ctx),
                  requested |-> request[path][sid].set,
                  request_before |-> request[path][sid].value,
                  retried |-> request[path][sid].retried,
                  status |-> out.status, order_id |-> out.order_id]
          /\ request' =
                 IF ~Holds(path, sid, ctx) THEN request
                 ELSE IF out.status = "badge_not_found"
                 THEN [request EXCEPT ![path][sid].retried = request[path][sid].set]
                 ELSE [request EXCEPT ![path][sid] = NoRequest]
    /\ UNCHANGED <<turnVars, moreVars>>

\* GeminiLiveService.create_session: a new LiveSession is registered under
\* the id, in place of any earlier one
CreateSession(sid) ==
    /\ active_sessions' = active_sessions \cup {sid}
    /\ pending_work_order' = [pending_work_order EXCEPT ![sid] = {}]
    /\ request' = [request EXCEPT !["live"][sid] = NoRequest]
    /\ \/ sid \notin active_sessions
       \/ pending_work_order[sid] # {}
    /\ UNCHANGED <<adk_state, pending_orders, approved_orders, completed_orders,
                   now, nCalls, last_call>>
    /\ UNCHANGED <<turnVars, moreVars>>

\* a second passes
ClockTick ==
    /\ now < MaxClock
    /\ now' = now + 1
    /\ UNCHANGED <<active_sessions, pending_work_order, adk_state, pending_orders,
                   approved_orders, completed_orders, nCalls, request, last_call>>
    /\ UNCHANGED <<turnVars, moreVars>>

NextTools ==
    \/ \E path \in Paths, sid \in Sessions, arguments \in WorkOrderArgs, ctx \in BOOLEAN :
           CreateWorkOrderCall(path, sid, arguments, ctx)
    \/ \E path \in Paths, sid \in Sessions, employee_id \in BadgeIds, ctx \in BOOLEAN :
           VerifyBadgeCall(path, sid, employee_id, ctx)
    \/ \E sid \in Sessions : CreateSession(sid)
    \/ ClockTick

---------------------------------------------------------------------------
(* GeminiLiveService.create_session and the LiveSession connection         *)
(* lifecycle: connect, disconnect, the send operations, the receive loop   *)
(* and the heartbeat, with several LiveSession objects side by side.       *)

\* payload of n bytes; Take is data[:k], the first k bytes of that payload
Payload(n) == [of |-> n, len |-> n]

Take(data, k) == [of |-> data.of, len |-> Min(data.len, k)]

NoFrame == [of |-> 0, len |-> 0]

AudioSizes == {0, max_chunk_size, 40960}

FrameSizes == {0, max_frame_size, max_frame_size + 1}

\* a string as leading whitespace, a run of other characters, trailing
\* whitespace
Str(lead, body, trail) == [lead |-> lead, body |-> body, trail |-> trail]

StrLen(text) == text.lead + text.body + text.trail

StrTakeAll(text, k) == text

\* text[:k]
StrTake(text, k) ==
    LET lead == Min(text.lead, k)
        body == Min(text.body, k - lead)
        trail == Min(text.trail, k - lead - body)
    IN Str(lead, body, trail)

\* text.strip()
Strip(text) == IF text.body = 0 THEN Str(0, 0, 0) ELSE Str(0, text.body, 0)

\* "", a blank, a word, a padded word, max_text_length blanks before a
\* letter, and a word of max_text_length + 1 letters
Texts == {Str(0, 0, 0), Str(1, 0, 0), Str(0, 2, 0), Str(1, 2, 1),
          Str(max_text_length, 1, 0), Str(0, max_text_length + 1, 0)}

\* function calls the backend may request
ToolCalls == {[id |-> "call_1", name |-> "log_safety_event"],
              [id |-> "call_2", name |-> "verify_badge"]}

Objs == 1..Len(live_sessions)

StreamIds == 1..Len(streams)

TaskIds == 1..Len(session_tasks)

\* LiveSession.__init__; the object's history is the list the service keeps
\* under history (a session id), shared by reference
NewLiveSession(sid) ==
    [session_id |-> sid,
     history |-> sid,
     session |-> 0,
     session_context |-> 0,
     running |-> FALSE,
     receive_task |-> 0,
     heartbeat_task |-> 0,
     turn_in_progress |-> FALSE,
     current_ai_response_parts |-> 0,
     turn_complete_timer |-> 0,
     latest_frame |-> NoFrame,
     resume_handle |-> 0,
     on_turn_complete_calls |-> 0]

NewStream(o) ==
    [owner |-> o, state |-> "open", sent |-> <<>>, closes |-> 0,
     replayed |-> <<>>, tool_calls |-> <<>>]

NewTask(o, kind, stream) ==
    [obj |-> o, kind |-> kind, stream |-> stream, status |-> "running"]

NoSend ==
    [fn |-> "none", obj |-> 0, connected |-> FALSE, forwarded |-> FALSE,
     input |-> NoFrame, raised |-> FALSE]

\* one more call or task step, within the bound of the model
Step == nSteps < MaxSteps /\ nSteps' = nSteps + 1

InitConn ==
    /\ session_histories = <<>>
    /\ live_sessions = <<>>
    /\ streams = <<>>
    /\ session_tasks = <<>>
    /\ nSteps = 0
    /\ last_send = NoSend

\* task.cancel() on the task a handle names (0: no task), seen once the
\* task has ended
Cancelled(ts, h) == IF h = 0 THEN ts ELSE [ts EXCEPT ![h].status = "done"]

\* self._session.send(input=...): the message goes out on an open stream;
\* on any other stream the send raises, and every caller catches that
Sent(ss, h, msg) ==
    IF h # 0 /\ ss[h].state = "open"
    THEN [ss EXCEPT ![h].sent = Append(@, msg)]
    ELSE ss

CreateSessionResetsHistory(hs, sid) ==
    [k \in DOMAIN hs \cup {sid} |-> IF k = sid THEN <<>> ELSE hs[k]]

\* if session_id not in self._session_histories: ... = []
WithHistory(hs, sid) ==
    IF sid \in DOMAIN hs THEN hs
    ELSE [k \in DOMAIN hs \cup {sid} |-> IF k = sid THEN <<>> ELSE hs[k]]

otherTools == <<adk_state, pending_orders, approved_orders, completed_orders,
                now, nCalls, request, last_call>>

\* GeminiLiveService.create_session: a new LiveSession on the history kept
\* for the id, registered in _active_sessions in place of any earlier one
CreateLiveSession(sid) ==
    /\ Step
    /\ session_histories' = WithHistory(session_histories, sid)
    /\ live_sessions' = Append(live_sessions, NewLiveSession(sid))
    /\ active_sessions' = active_sessions \cup {sid}
    /\ pending_work_order' = [pending_work_order EXCEPT ![sid] = {}]
    /\ UNCHANGED <<streams, session_tasks, last_send>>
    /\ UNCHANGED <<turnVars, opVars, otherTools, restVars>>

ReplayPerTurn(history) ==
    [i \in 1..Len(history) |->
        [kind |-> "replay", turns |-> <<history[i]>>, turn_complete |-> TRUE]]

\* connect: if self.history: send LiveClientContent(turns=self.history,
\* turn_complete=True); the messages this puts on the new stream
ConnectSends(history) ==
    IF history # <<>>
    THEN <<[kind |-> "replay", turns |-> history, turn_complete |-> TRUE]>>
    ELSE <<>>

\* connect: the stream is opened (nothing of the object changes while
\* __aenter__ is awaited but _session_context), the receive and heartbeat
\* tasks are created, and nothing else runs before the replay is handed to
\* the stream
Connect(o) ==
    LET id == Len(streams) + 1
        history == session_histories[live_sessions[o].history]
    IN /\ Step
       /\ streams' = Append(streams,
                            [NewStream(o) EXCEPT !.replayed = history,
                                                 !.sent = ConnectSends(history)])
       /\ session_tasks' = session_tasks \o <<NewTask(o, "receive", id),
                                              NewTask(o, "heartbeat", id)>>
       /\ live_sessions' = [live_sessions EXCEPT ![o].session_context = id,
                                                 ![o].session = id,
                                                 ![o].running = TRUE,
                                                 ![o].receive_task = Len(session_tasks) + 1,
                                                 ![o].heartbeat_task = Len(session_tasks) + 2]
       /\ UNCHANGED <<session_histories, last_send>>
       /\ UNCHANGED <<turnVars, toolVars, opVars, restVars>>

AfterDisconnectKeepsContext(obj) ==
    [obj EXCEPT !.running = FALSE, !.turn_complete_timer = 0]

\* disconnect: the fields it leaves
AfterDisconnect(obj) ==
    IF obj.session_context # 0
    THEN [obj EXCEPT !.running = FALSE, !.turn_complete_timer = 0,
                     !.session_context = 0, !.session = 0]
    ELSE [obj EXCEPT !.running = FALSE, !.turn_complete_timer = 0]

\* self._session_context.__aexit__(None, None, None)
Closed(ss, h) ==
    IF h = 0 THEN ss
    ELSE [ss EXCEPT ![h].state = "closed", ![h].closes = @ + 1]

\* disconnect: the timer, the receive task and the heartbeat task the
\* object's handles name are cancelled (the last two awaited), then the
\* stream of _session_context is closed.  connect and disconnect of one
\* object are called one after the other, never one while the other is
\* suspended.
DisconnectSession(o) ==
    LET obj == live_sessions[o]
    IN /\ Step
       /\ session_tasks' = Cancelled(Cancelled(Cancelled(session_tasks, obj.turn_complete_timer),
                                       obj.receive_task), obj.heartbeat_task)
       /\ streams' = Closed(streams, obj.session_context)
       /\ live_sessions' = [live_sessions EXCEPT ![o] = AfterDisconnect(obj)]
       /\ last_send' = [fn |-> "disconnect", obj |-> o,
                        connected |-> obj.running, forwarded |-> FALSE,
                        input |-> NoFrame, raised |-> FALSE]
       /\ UNCHANGED <<session_histories>>
       /\ UNCHANGED <<turnVars, toolVars, opVars, restVars>>

ConnectedAlways(obj) == TRUE

\* "if not self._session or not self._running: return", negated
Connected(obj) == obj.session # 0 /\ obj.running

\* does self._session.send raise: it does on a stream that is no longer open
SendRaises(obj) == obj.session # 0 /\ streams[obj.session].state # "open"

NotCaught(raises) == raises

\* "try: await self._session.send(...) except Exception as e: logger.error":
\* does the exception of the send leave the caller
Caught(raises) == FALSE

\* room left on the object's stream, within the bounds of the model
Room(obj) == obj.session # 0 => Len(streams[obj.session].sent) <= MaxSends

AudioBlobWhole(n) == Payload(n)

\* send_audio: audio_data[:max_chunk_size] when it is longer than that
AudioBlob(n) ==
    IF n > max_chunk_size THEN Take(Payload(n), max_chunk_size) ELSE Payload(n)

\* send_audio(audio_data), len(audio_data) = n
SendAudio(o, n) ==
    LET obj == live_sessions[o]
        goes == Connected(obj) /\ n # 0
    IN /\ Step
       /\ Room(obj)
       /\ streams' = IF goes
                     THEN Sent(streams, obj.session,
                               [kind |-> "audio", data |-> AudioBlob(n)])
                     ELSE streams
       /\ last_send' = [fn |-> "send_audio", obj |-> o,
                        connected |-> Connected(obj),
                        forwarded |-> streams' # streams,
                        input |-> Payload(n),
                        raised |-> Caught(goes /\ SendRaises(obj))]
       /\ UNCHANGED <<session_histories, live_sessions, session_tasks>>
       /\ UNCHANGED <<turnVars, toolVars, opVars, restVars>>

SendVideoFrameTruncates(o, n) ==
    LET obj == live_sessions[o]
        goes == Connected(obj) /\ n # 0
        data == IF n > max_frame_size THEN Take(Payload(n), max_frame_size)
                ELSE Payload(n)
    IN /\ Step
       /\ Room(obj)
       /\ live_sessions' = IF goes
                           THEN [live_sessions EXCEPT ![o].latest_frame = data]
                           ELSE live_sessions
       /\ streams' = IF goes
                     THEN Sent(streams, obj.session, [kind |-> "video", data |-> data])
                     ELSE streams
       /\ last_send' = [fn |-> "send_video_frame", obj |-> o,
                        connected |-> Connected(obj),
                        forwarded |-> streams' # streams,
                        input |-> Payload(n),
                        raised |-> Caught(goes /\ SendRaises(obj))]
       /\ UNCHANGED <<session_histories, session_tasks>>
       /\ UNCHANGED <<turnVars, toolVars, opVars, restVars>>

\* send_video_frame(jpeg_data), len(jpeg_data) = n: an oversized frame is
\* skipped; an accepted one is buffered as evidence, then sent
SendVideoFrame(o, n) ==
    LET obj == live_sessions[o]
        goes == Connected(obj) /\ n # 0 /\ n <= max_frame_size
    IN /\ Step
       /\ Room(obj)
       /\ live_sessions' = IF goes
                           THEN [live_sessions EXCEPT ![o].latest_frame = Payload(n)]
                           ELSE live_sessions
       /\ streams' = IF goes
                     THEN Sent(streams, obj.session,
                               [kind |-> "video", data |-> Payload(n)])
                     ELSE streams
       /\ last_send' = [fn |-> "send_video_frame", obj |-> o,
                        connected |-> Connected(obj),
                        forwarded |-> streams' # streams,
                        input |-> Payload(n),
                        raised |-> Caught(goes /\ SendRaises(obj))]
       /\ UNCHANGED <<session_histories, session_tasks>>
       /\ UNCHANGED <<turnVars, toolVars, opVars, restVars>>

SendTextResendsHistory(o, text) ==
    LET obj == live_sessions[o]
        goes == Connected(obj) /\ StrLen(text) # 0 /\ Strip(text) # Str(0, 0, 0)
        cut == IF StrLen(text) > max_text_length
               THEN StrTake(text, max_text_length) ELSE text
        user_content == [role |-> "user", text |-> Strip(cut)]
    IN /\ Step
       /\ Room(obj)
       /\ session_histories' =
              IF goes
              THEN [session_histories EXCEPT ![obj.history] = Append(@, user_content)]
              ELSE session_histories
       /\ streams' = IF goes
                     THEN Sent(streams, obj.session,
                               [kind |-> "text", turns |-> session_histories'[obj.history],
                                turn_complete |-> TRUE])
                     ELSE streams
       /\ last_send' = [fn |-> "send_text", obj |-> o,
                        connected |-> Connected(obj),
                        forwarded |-> streams' # streams,
                        input |-> text,
                        raised |-> Caught(goes /\ SendRaises(obj))]
       /\ UNCHANGED <<live_sessions, session_tasks>>
       /\ UNCHANGED <<turnVars, toolVars, opVars, restVars>>

\* send_text(text): blank text is dropped; the text is cut to
\* max_text_length, its strip() is appended to history as a user turn,
\* and only that turn is sent
SendText(o, text) ==
    LET obj == live_sessions[o]
        goes == Connected(obj) /\ StrLen(text) # 0 /\ Strip(text) # Str(0, 0, 0)
        cut == IF StrLen(text) > max_text_length
               THEN StrTake(text, max_text_length) ELSE text
        user_content == [role |-> "user", text |-> Strip(cut)]
    IN /\ Step
       /\ Room(obj)
       /\ session_histories' =
              IF goes
              THEN [session_histories EXCEPT ![obj.history] = Append(@, user_content)]
              ELSE session_histories
       /\ streams' = IF goes
                     THEN Sent(streams, obj.session,
                               [kind |-> "text", turns |-> <<user_content>>,
                                turn_complete |-> TRUE])
                     ELSE streams
       /\ last_send' = [fn |-> "send_text", obj |-> o,
                        connected |-> Connected(obj),
                        forwarded |-> streams' # streams,
                        input |-> text,
                        raised |-> Caught(goes /\ SendRaises(obj))]
       /\ UNCHANGED <<live_sessions, session_tasks>>
       /\ UNCHANGED <<turnVars, toolVars, opVars, restVars>>

\* _reset_turn_complete_timer, on the object o: <<objects, session_tasks>> after it
ResetTimerOf(o) ==
    LET obj == live_sessions[o]
        ts == Cancelled(session_tasks, obj.turn_complete_timer)
    IN <<[live_sessions EXCEPT ![o].turn_complete_timer = Len(ts) + 1],
         Append(ts, NewTask(o, "timer", obj.session))>>

\* _finalize_turn, on the object o: <<objects, session_tasks, histories>> after it
FinalizeOf(objs, ts, o) ==
    LET obj == objs[o]
        ts1 == Cancelled(ts, obj.turn_complete_timer)
        idle == [obj EXCEPT !.turn_complete_timer = 0]
    IN IF ~obj.turn_in_progress
       THEN <<[objs EXCEPT ![o] = idle], ts1, session_histories>>
       ELSE <<[objs EXCEPT ![o] =
                  [idle EXCEPT !.turn_in_progress = FALSE,
                               !.current_ai_response_parts = 0,
                               !.on_turn_complete_calls = @ + 1]],
              ts1,
              IF obj.current_ai_response_parts # 0
              THEN [session_histories EXCEPT ![obj.history] =
                       Append(@, [role |-> "model",
                                  parts |-> obj.current_ai_response_parts])]
              ELSE session_histories>>

\* the receive task t has an event in hand: its stream is open and the
\* backend has something to send
Receiving(t) ==
    /\ session_tasks[t].kind = "receive"
    /\ session_tasks[t].status = "running"
    /\ streams[session_tasks[t].stream].state = "open"

\* _receive_loop: "if not self._running: break"
LoopBreaks(t) ==
    /\ session_tasks' = [session_tasks EXCEPT ![t].status = "done"]
    /\ UNCHANGED <<live_sessions, session_histories, streams>>

\* a model_turn with one text part arrives
ContentEvent(t) ==
    LET o == session_tasks[t].obj
        reset == ResetTimerOf(o)
    IN /\ Receiving(t)
       /\ Step
       /\ IF ~live_sessions[o].running THEN LoopBreaks(t)
          ELSE /\ live_sessions' =
                      [reset[1] EXCEPT ![o].turn_in_progress = TRUE,
                                       ![o].current_ai_response_parts = @ + 1]
               /\ session_tasks' = reset[2]
               /\ UNCHANGED <<session_histories, streams>>
       /\ UNCHANGED last_send
       /\ UNCHANGED <<turnVars, toolVars, opVars, restVars>>

\* a server_content with turn_complete arrives
TurnCompleteEvent(t) ==
    LET o == session_tasks[t].obj
        fin == FinalizeOf(live_sessions, session_tasks, o)
    IN /\ Receiving(t)
       /\ Step
       /\ IF ~live_sessions[o].running THEN LoopBreaks(t)
          ELSE /\ live_sessions' = fin[1]
               /\ session_tasks' = fin[2]
               /\ session_histories' = fin[3]
               /\ UNCHANGED streams
       /\ UNCHANGED last_send
       /\ UNCHANGED <<turnVars, toolVars, opVars, restVars>>

\* _handle_response, "if ... response.tool_call:": the branch reads fc,
\* a name that nothing binds, so NameError is raised before on_tool_call,
\* handle_tool_call or the send of the tool response; _receive_loop logs
\* it and goes on.  The messages the branch sends for a call:
ToolResponses(fc) == <<>>

RECURSIVE SentAll(_, _, _)
SentAll(ss, h, msgs) ==
    IF msgs = <<>> THEN ss ELSE SentAll(Sent(ss, h, Head(msgs)), h, Tail(msgs))

\* a tool_call arrives
ToolCallEvent(t, fc) ==
    LET o == session_tasks[t].obj
        h == session_tasks[t].stream
    IN /\ Receiving(t)
       /\ Step
       /\ IF ~live_sessions[o].running THEN LoopBreaks(t)
          ELSE /\ streams' = SentAll([streams EXCEPT ![h].tool_calls = Append(@, fc)],
                                     live_sessions[o].session, ToolResponses(fc))
               /\ UNCHANGED <<live_sessions, session_tasks, session_histories>>
       /\ UNCHANGED last_send
       /\ UNCHANGED <<turnVars, toolVars, opVars, restVars>>

\* the backend ends the stream: "async for" of _receive_loop is over
StreamEnds(t) ==
    /\ Receiving(t)
    /\ Step
    /\ session_tasks' = [session_tasks EXCEPT ![t].status = "done"]
    /\ streams' = [streams EXCEPT ![session_tasks[t].stream].state = "ended"]
    /\ UNCHANGED <<session_histories, live_sessions, last_send>>
    /\ UNCHANGED <<turnVars, toolVars, opVars, restVars>>

\* _turn_complete_timer_task: the sleep of the timer task t is over
TimerExpires(t) ==
    LET o == session_tasks[t].obj
        fin == FinalizeOf(live_sessions, session_tasks, o)
    IN /\ Step
       /\ session_tasks[t].kind = "timer"
       /\ session_tasks[t].status = "running"
       /\ IF live_sessions[o].turn_in_progress
          THEN /\ live_sessions' = fin[1]
               /\ session_tasks' = [fin[2] EXCEPT ![t].status = "done"]
               /\ session_histories' = fin[3]
          ELSE /\ session_tasks' = [session_tasks EXCEPT ![t].status = "done"]
               /\ UNCHANGED <<live_sessions, session_histories>>
       /\ UNCHANGED <<streams, last_send>>
       /\ UNCHANGED <<turnVars, toolVars, opVars, restVars>>

\* _heartbeat_loop: the sleep of the heartbeat task t is over; it sends an
\* empty realtime input on the object's current stream, or leaves the loop
\* when the object no longer runs
HeartbeatPulse(t) ==
    LET obj == live_sessions[session_tasks[t].obj]
    IN /\ Step
       /\ session_tasks[t].kind = "heartbeat"
       /\ session_tasks[t].status = "running"
       /\ IF obj.running
          THEN /\ Room(obj)
               /\ obj.session # 0 /\ streams[obj.session].state = "open"
               /\ streams' = Sent(streams, obj.session, [kind |-> "heartbeat"])
               /\ UNCHANGED session_tasks
          ELSE /\ session_tasks' = [session_tasks EXCEPT ![t].status = "done"]
               /\ UNCHANGED streams
       /\ UNCHANGED <<session_histories, live_sessions, last_send>>
       /\ UNCHANGED <<turnVars, toolVars, opVars, restVars>>

RaisedEndsLoop(ts, t) == [ts EXCEPT ![t].status = "done"]

\* _receive_loop: "except Exception as e: logger.error(...)" around
\* _handle_response; the tasks after an exception in the receive task t
Raised(ts, t) == ts

\* a model_turn with a text part arrives and on_text raises: the turn is
\* marked in progress and the timer reset, the part is not accumulated
ContentCallbackRaises(t) ==
    LET o == session_tasks[t].obj
        reset == ResetTimerOf(o)
    IN /\ Receiving(t)
       /\ Step
       /\ live_sessions[o].running
       /\ live_sessions' = [reset[1] EXCEPT ![o].turn_in_progress = TRUE]
       /\ session_tasks' = Raised(reset[2], t)
       /\ UNCHANGED <<session_histories, streams, last_send>>
       /\ UNCHANGED <<turnVars, toolVars, opVars, restVars>>

PulseFailedEndsLoop(ts, t) == [ts EXCEPT ![t].status = "done"]

\* _heartbeat_loop: "except Exception as e: logger.debug(...)" around the
\* send; the tasks after a failed send of the heartbeat task t
PulseFailed(ts, t) == ts

\* _heartbeat_loop: the sleep of the heartbeat task t is over and the send
\* on the object's stream raises
HeartbeatFails(t) ==
    LET obj == live_sessions[session_tasks[t].obj]
    IN /\ Step
       /\ session_tasks[t].kind = "heartbeat"
       /\ session_tasks[t].status = "running"
       /\ obj.running
       /\ SendRaises(obj)
       /\ session_tasks' = PulseFailed(session_tasks, t)
       /\ UNCHANGED <<session_histories, live_sessions, streams, last_send>>
       /\ UNCHANGED <<turnVars, toolVars, opVars, restVars>>

NextConn ==
    \/ \E sid \in Sessions : CreateLiveSession(sid)
    \/ \E o \in Objs : Connect(o)
    \/ \E o \in Objs : DisconnectSession(o)
    \/ \E o \in Objs : SendText(o, Str(0, 2, 0))
    \/ \E t \in TaskIds : ContentEvent(t)
    \/ \E t \in TaskIds : TurnCompleteEvent(t)
    \/ \E t \in TaskIds, fc \in ToolCalls : ToolCallEvent(t, fc)
    \/ \E t \in TaskIds : StreamEnds(t)
    \/ \E t \in TaskIds : TimerExpires(t)
    \/ \E t \in TaskIds : HeartbeatPulse(t)

\* the send operations never read the session id: one id is enough
SendSessions == {"s1"}

\* response.session_resumption_update: None, or an update whose new_handle
\* is a handle the backend grants (1, 2) or None (0), as the backend sends
\* while the session cannot be resumed
Updates ==
    {[present |-> FALSE, new_handle |-> 0]} \cup
    {[present |-> TRUE, new_handle |-> h] : h \in 0..2}

\* "if update and hasattr(update, 'new_handle'):
\*      self._resume_handle = update.new_handle"
Captured(handle, update) ==
    IF update.present THEN update.new_handle ELSE handle

\* a message with a session_resumption_update arrives
ResumptionUpdateEvent(t, update) ==
    LET o == session_tasks[t].obj
    IN /\ Receiving(t)
       /\ Step
       /\ IF ~live_sessions[o].running THEN LoopBreaks(t)
          ELSE /\ live_sessions' =
                      [live_sessions EXCEPT
                          ![o].resume_handle = Captured(@, update)]
               /\ UNCHANGED <<session_tasks, session_histories, streams>>
       /\ UNCHANGED last_send
       /\ UNCHANGED <<turnVars, toolVars, opVars, restVars>>

\* the sessions and the resumption updates of their streams
NextResume ==
    \/ \E sid \in SendSessions : Len(live_sessions) < 2 /\ CreateLiveSession(sid)
    \/ \E o \in Objs : ~Connected(live_sessions[o]) /\ Connect(o)
    \/ \E o \in Objs : DisconnectSession(o)
    \/ \E t \in TaskIds, update \in Updates : ResumptionUpdateEvent(t, update)
    \/ \E t \in TaskIds : ContentEvent(t)
    \/ \E t \in TaskIds : TurnCompleteEvent(t)
    \/ \E t \in TaskIds : StreamEnds(t)

\* the send operations of the sessions, connected or not
NextSend ==
    \/ \E sid \in SendSessions : CreateLiveSession(sid)
    \/ \E o \in Objs : Connect(o)
    \/ \E o \in Objs : DisconnectSession(o)
    \/ \E o \in Objs, n \in AudioSizes : SendAudio(o, n)
    \/ \E o \in Objs, n \in FrameSizes : SendVideoFrame(o, n)
    \/ \E o \in Objs, text \in Texts : SendText(o, text)

\* the sessions under failures: callbacks that raise, streams that end
\* under the senders and the heartbeat
NextFail ==
    \/ \E sid \in SendSessions : Len(live_sessions) < 2 /\ CreateLiveSession(sid)
    \/ \E o \in Objs : ~Connected(live_sessions[o]) /\ Connect(o)
    \/ \E o \in Objs : DisconnectSession(o)
    \/ \E o \in Objs : SendAudio(o, max_chunk_size)
    \/ \E o \in Objs : SendVideoFrame(o, max_frame_size)
    \/ \E o \in Objs : SendText(o, Str(0, 2, 0))
    \/ \E t \in TaskIds : ContentEvent(t)
    \/ \E t \in TaskIds : ContentCallbackRaises(t)
    \/ \E t \in TaskIds : TurnCompleteEvent(t)
    \/ \E t \in TaskIds, fc \in ToolCalls : ToolCallEvent(t, fc)
    \/ \E t \in TaskIds : StreamEnds(t)
    \/ \E t \in TaskIds : HeartbeatPulse(t)
    \/ \E t \in TaskIds : HeartbeatFails(t)

---------------------------------------------------------------------------
(* log_safety_event on its two dispatch paths:                             *)
(* GeminiLiveService.handle_tool_call with AuditLogger.log_event, and      *)
(* app/fieldvision_agent/tools.py.                                         *)

\* severity arguments the model may send: below the scale, below the
\* evidence threshold, on it, and above the scale
Severities == {0, 2, 3, 9}

\* keys of tools._latest_frames: a session id, and the "unknown" the tool
\* falls back on
FrameKeys == SendSessions \cup {"unknown"}

NoResult == [status |-> "none", evidence_captured |-> FALSE]

NoTool ==
    [path |-> "none", session_id |-> "none", severity |-> 1, frame |-> NoFrame,
     evidence_ok |-> TRUE, audit_ok |-> TRUE, returned |-> FALSE,
     result |-> NoResult, evidence_before |-> 0, events_before |-> 0,
     files_before |-> 0]

InitSafety ==
    /\ latest_frames = [k \in FrameKeys |-> NoFrame]
    /\ evidence_files = <<>>
    /\ session_events = <<>>
    /\ audit_files = <<>>
    /\ last_tool = NoTool

\* bool(frame): None and b"" are both false
Truthy(frame) == frame.len # 0

\* tools.set_latest_frame(session_id, frame_data), len(frame_data) = n
SetLatestFrame(k, n) ==
    /\ latest_frames' = [latest_frames EXCEPT ![k] = Payload(n)]
    /\ latest_frames' # latest_frames
    /\ UNCHANGED <<evidence_files, session_events, audit_files, last_tool>>
    /\ UNCHANGED <<turnVars, toolVars, opVars, connVars, clientVars>>

\* tools.clear_session_frame(session_id)
ClearSessionFrame(k) ==
    /\ Truthy(latest_frames[k])
    /\ latest_frames' = [latest_frames EXCEPT ![k] = NoFrame]
    /\ UNCHANGED <<evidence_files, session_events, audit_files, last_tool>>
    /\ UNCHANGED <<turnVars, toolVars, opVars, connVars, clientVars>>

\* self._active_sessions.get(session_id): the LiveSession create_session
\* registered last under the id (0: None)
ActiveSession(sid) ==
    IF \E o \in Objs : live_sessions[o].session_id = sid
    THEN CHOOSE o \in Objs :
             /\ live_sessions[o].session_id = sid
             /\ \A p \in Objs : live_sessions[p].session_id = sid => p <= o
    ELSE 0

\* session._latest_frame of that session, if there is one
LiveFrame(sid) ==
    IF ActiveSession(sid) = 0 THEN NoFrame
    ELSE live_sessions[ActiveSession(sid)].latest_frame

\* AuditLogger.log_event: min(max(severity, 1), 5)
Clamp(severity) == Min(Max(severity, 1), 5)

CapturesAnySeverity(frame, severity) == Truthy(frame)

\* "session and session._latest_frame and arguments.get("severity", 1) >= 3"
\* (handle_tool_call), "frame_data and severity >= 3" (tools.py)
CapturesEvidence(frame, severity) == Truthy(frame) /\ severity >= 3

\* the evidence file written for the frame: its number among the files of
\* static/evidence, 0 (None) when nothing is attempted or the write raises
EvidenceUrl(frame, severity, evidence_ok) ==
    IF CapturesEvidence(frame, severity) /\ evidence_ok
    THEN Len(evidence_files) + 1
    ELSE 0

Persisted(session_id, frame, evidence_url) ==
    IF evidence_url # 0
    THEN Append(evidence_files, [session_id |-> session_id, frame |-> frame])
    ELSE evidence_files

\* what a log_safety_event call changes and returns
Logged(ef, se, af, returned, result) ==
    [evidence_files |-> ef, session_events |-> se, audit_files |-> af,
     returned |-> returned, result |-> result]

\* handle_tool_call, function_name = "log_safety_event": the event is kept
\* in memory, then appended to the log file; when that write raises, so
\* does handle_tool_call
HandleLogSafetyEvent(sid, severity, evidence_ok, audit_ok) ==
    LET frame == LiveFrame(sid)
        evidence_url == EvidenceUrl(frame, severity, evidence_ok)
        event == [session_id |-> sid, severity |-> Clamp(severity),
                  source |-> "ai", evidence_url |-> evidence_url]
    IN Logged(Persisted(sid, frame, evidence_url),
              Append(session_events, event),
              IF audit_ok
              THEN Append(audit_files, [file |-> "audit_log.json", event |-> event])
              ELSE audit_files,
              audit_ok,
              IF audit_ok
              THEN [status |-> "logged", evidence_captured |-> evidence_url # 0]
              ELSE NoResult)

\* tools.log_safety_event(event_type, severity, description, tool_context):
\* the event goes to audit_<session_id>.json with the severity as given; a
\* failure of that write is logged and the acknowledgment returned
AdkLogSafetyEvent(sid, severity, ctx, evidence_ok, audit_ok) ==
    LET session_id == IF ctx THEN sid ELSE "unknown"
        frame == latest_frames[session_id]
        evidence_url == EvidenceUrl(frame, severity, evidence_ok)
        event_data == [session_id |-> session_id, severity |-> severity,
                       source |-> "ai", evidence_url |-> evidence_url]
    IN Logged(Persisted(session_id, frame, evidence_url),
              session_events,
              IF audit_ok
              THEN Append(audit_files, [file |-> session_id, event |-> event_data])
              ELSE audit_files,
              TRUE,
              [status |-> "logged", evidence_captured |-> evidence_url # 0])

\* the frame the call finds buffered for its session
BufferedFrame(path, sid, ctx) ==
    IF path = "live" THEN LiveFrame(sid)
    ELSE latest_frames[IF ctx THEN sid ELSE "unknown"]

\* log_safety_event arrives as a tool call; evidence_ok and audit_ok tell
\* whether the evidence file and the audit record can be written
LogSafetyEventCall(path, sid, severity, ctx, evidence_ok, audit_ok) ==
    /\ Len(session_events) + Len(audit_files) + Len(evidence_files) < MaxEvents
    /\ path = "live" => ctx
    /\ ~CapturesEvidence(BufferedFrame(path, sid, ctx), severity) => evidence_ok
    /\ LET out == IF path = "live"
                  THEN HandleLogSafetyEvent(sid, severity, evidence_ok, audit_ok)
                  ELSE AdkLogSafetyEvent(sid, severity, ctx, evidence_ok, audit_ok)
       IN /\ evidence_files' = out.evidence_files
          /\ session_events' = out.session_events
          /\ audit_files' = out.audit_files
          /\ last_tool' =
                 [path |-> path,
                  session_id |-> IF path = "adk" /\ ~ctx THEN "unknown" ELSE sid,
                  severity |-> severity,
                  frame |-> BufferedFrame(path, sid, ctx),
                  evidence_ok |-> evidence_ok, audit_ok |-> audit_ok,
                  returned |-> out.returned, result |-> out.result,
                  evidence_before |-> Len(evidence_files),
                  events_before |-> Len(session_events),
                  files_before |-> Len(audit_files)]
    /\ UNCHANGED latest_frames
    /\ UNCHANGED <<turnVars, toolVars, opVars, connVars, clientVars>>

\* the safety tool, the frames buffered for it and the stores it writes
NextSafety ==
    \/ \E sid \in SendSessions : Len(live_sessions) < 2 /\ CreateLiveSession(sid)
    \/ \E o \in Objs : ~Connected(live_sessions[o]) /\ Connect(o)
    \/ \E o \in Objs : Connected(live_sessions[o]) /\ SendVideoFrame(o, max_frame_size)
    \/ \E k \in FrameKeys : SetLatestFrame(k, max_frame_size)
    \/ \E k \in FrameKeys : ClearSessionFrame(k)
    \/ \E path \in Paths, sid \in SendSessions, severity \in Severities,
          ctx \in BOOLEAN, evidence_ok \in BOOLEAN, audit_ok \in BOOLEAN :
           LogSafetyEventCall(path, sid, severity, ctx, evidence_ok, audit_ok)

---------------------------------------------------------------------------
(* app/websocket_handler.py: one ClientConnection, the messages its        *)
(* websocket delivers, and the downstream tasks it starts.  The connection *)
(* belongs to a logged-in user (session_user is set).                      *)

NoClient ==
    [session_id |-> 0, live_queue |-> 0, downstream_task |-> 0,
     is_session_active |-> FALSE]

NoMessage == [type |-> "none", active |-> FALSE, forwarded |-> FALSE]

InitClient ==
    /\ client = NoClient
    /\ live_queues = <<>>
    /\ downstream_tasks = <<>>
    /\ adk_sessions = {}
    /\ outbox = <<>>
    /\ camera_feed = NoFrame
    /\ handling = TRUE
    /\ ws_open = TRUE
    /\ uuids = 0
    /\ nClient = 0
    /\ last_message = NoMessage

ClientStep == nClient < MaxMessages /\ nClient' = nClient + 1

\* handle_messages has a message in hand: the loop runs, the socket is open
Receives == handling /\ ws_open /\ ClientStep

\* _send_message / _send_error: what the websocket is given
Message(type) == [type |-> type, error |-> ""]

ErrorMessage(error) == [type |-> "error", error |-> error]

\* AuditLogger.log_event as the connection calls it: the event is kept in
\* memory, then appended to the log file, which may raise
SystemEvent(session_id, event_type) ==
    [session_id |-> session_id, event_type |-> event_type,
     severity |-> Clamp(1), source |-> "system"]

LogSystemEvent(session_id, event_type, audit_ok) ==
    LET event == SystemEvent(session_id, event_type)
    IN /\ session_events' = Append(session_events, event)
       /\ audit_files' = IF audit_ok
                         THEN Append(audit_files,
                                     [file |-> "audit_log.json", event |-> event])
                         ELSE audit_files
       /\ UNCHANGED <<latest_frames, evidence_files, last_tool>>

NeverActive(c) == FALSE

\* "self._is_session_active"
SessionActive(c) == c.is_session_active

\* "not self._is_session_active or not self.live_queue"
Forwards(c) == SessionActive(c) /\ c.live_queue # 0

\* live_queue.close()
QueueClosed(qs, q) == IF q = 0 THEN qs ELSE [qs EXCEPT ![q].closed = TRUE]

\* "if self._downstream_task and not self._downstream_task.done():" cancel
TaskCancelled(ts, t) ==
    IF t # 0 /\ ts[t].status = "running"
    THEN [ts EXCEPT ![t].status = "cancelled"]
    ELSE ts

\* _handle_start_session; manual_ok: validate_manual_context accepts the
\* manual, create_ok: get_or_create_session returns, audit_ok: the audit
\* record can be written
HandleStartSession(manual_ok, create_ok, audit_ok) ==
    LET session_id == uuids + 1
        q == Len(live_queues) + 1
        t == Len(downstream_tasks) + 1
    IN /\ Receives
       /\ last_message' = [type |-> "start_session",
                           active |-> client.is_session_active,
                           forwarded |-> FALSE]
       /\ UNCHANGED <<camera_feed, handling, ws_open>>
       /\ IF SessionActive(client)
          THEN /\ outbox' = Append(outbox, ErrorMessage("Session already active"))
               /\ UNCHANGED <<client, live_queues, downstream_tasks,
                              adk_sessions, uuids, safetyVars>>
          ELSE /\ uuids' = session_id
               /\ IF ~manual_ok \/ ~create_ok
                  THEN /\ client' = [client EXCEPT !.session_id = session_id]
                       /\ outbox' =
                              Append(outbox,
                                     ErrorMessage(IF ~manual_ok
                                                  THEN "Invalid manual context"
                                                  ELSE "Failed to start session"))
                       /\ UNCHANGED <<live_queues, downstream_tasks,
                                      adk_sessions, safetyVars>>
                  ELSE /\ adk_sessions' = adk_sessions \cup {session_id}
                       /\ live_queues' =
                              Append(live_queues, [closed |-> FALSE, items |-> <<>>])
                       /\ downstream_tasks' =
                              Append(downstream_tasks,
                                     [session_id |-> session_id, queue |-> q,
                                      status |-> "running"])
                       /\ client' = [session_id |-> session_id, live_queue |-> q,
                                     downstream_task |-> t,
                                     is_session_active |-> TRUE]
                       /\ LogSystemEvent(session_id, "session_started", audit_ok)
                       /\ outbox' =
                              Append(outbox,
                                     IF audit_ok THEN Message("session_started")
                                     ELSE ErrorMessage("Failed to start session"))
    /\ UNCHANGED <<turnVars, toolVars, opVars, connVars>>

\* _handle_end_session; when the audit write raises, the exception leaves
\* the handler before the fields are reset and ends handle_messages
HandleEndSession(audit_ok) ==
    /\ Receives
    /\ last_message' = [type |-> "end_session",
                        active |-> client.is_session_active,
                        forwarded |-> FALSE]
    /\ UNCHANGED <<adk_sessions, ws_open, uuids>>
    /\ IF SessionActive(client)
       THEN /\ live_queues' = QueueClosed(live_queues, client.live_queue)
            /\ downstream_tasks' =
                   TaskCancelled(downstream_tasks, client.downstream_task)
            /\ LogSystemEvent(client.session_id, "session_ended", audit_ok)
            /\ IF audit_ok
               THEN /\ outbox' = Append(outbox, Message("session_ended"))
                    /\ camera_feed' = NoFrame
                    /\ client' = NoClient
                    /\ UNCHANGED handling
               ELSE /\ outbox' = Append(outbox, ErrorMessage("audit write failed"))
                    /\ handling' = FALSE
                    /\ UNCHANGED <<camera_feed, client>>
       ELSE /\ audit_ok
            /\ UNCHANGED <<client, live_queues, downstream_tasks, outbox,
                           camera_feed, handling, safetyVars>>
    /\ UNCHANGED <<turnVars, toolVars, opVars, connVars>>

\* what send_realtime / send_content put on the connection's queue
Queued(qs, c, item) ==
    IF Forwards(c) THEN [qs EXCEPT ![c.live_queue].items = Append(@, item)]
    ELSE qs

\* a data message whose handler puts item on the queue
Forward(type, item) ==
    /\ Receives
    /\ live_queues' = Queued(live_queues, client, item)
    /\ last_message' = [type |-> type, active |-> client.is_session_active,
                        forwarded |-> live_queues' # live_queues]
    /\ UNCHANGED <<client, downstream_tasks, adk_sessions, outbox, handling,
                   ws_open, uuids, safetyVars>>
    /\ UNCHANGED <<turnVars, toolVars, opVars, connVars>>

\* _handle_audio_data
HandleAudioData(n) ==
    /\ Forward("audio_data", [mime_type |-> "audio/pcm;rate=16000", len |-> n])
    /\ UNCHANGED camera_feed

\* _handle_video_frame: the frame is also kept for the manager's camera view
HandleVideoFrame(n) ==
    /\ Forward("video_frame", [mime_type |-> "image/jpeg", len |-> n])
    /\ camera_feed' = IF Forwards(client) THEN Payload(n) ELSE camera_feed

\* _handle_text_message: "if text:"
HandleTextMessage(n) ==
    /\ IF n # 0
       THEN Forward("text_message", [mime_type |-> "text", len |-> n])
       ELSE /\ Receives
            /\ last_message' = [type |-> "text_message",
                                active |-> client.is_session_active,
                                forwarded |-> FALSE]
            /\ UNCHANGED <<client, live_queues, downstream_tasks, adk_sessions,
                           outbox, handling, ws_open, uuids, safetyVars>>
            /\ UNCHANGED <<turnVars, toolVars, opVars, connVars>>
    /\ UNCHANGED camera_feed

\* what a downstream task leaves behind when it stops
ClientRest ==
    /\ UNCHANGED <<client, live_queues, adk_sessions, camera_feed, handling,
                   ws_open, uuids, last_message, safetyVars>>
    /\ UNCHANGED <<turnVars, toolVars, opVars, connVars>>

Downstream(t) ==
    /\ t \in 1..Len(downstream_tasks)
    /\ downstream_tasks[t].status = "running"
    /\ ClientStep

\* _run_downstream takes an event from run_live: _process_event forwards
\* it to the client, and swallows what the send raises
DownstreamEvent(t) ==
    /\ Downstream(t)
    /\ outbox' = IF ws_open THEN Append(outbox, Message("text_response"))
                 ELSE outbox
    /\ UNCHANGED downstream_tasks
    /\ ClientRest

\* run_live raises: "except Exception" sends one error, if the socket
\* still takes it
DownstreamFails(t) ==
    /\ Downstream(t)
    /\ downstream_tasks' = [downstream_tasks EXCEPT ![t].status = "failed"]
    /\ outbox' = IF ws_open THEN Append(outbox, ErrorMessage("Stream error"))
                 ELSE outbox
    /\ ClientRest

\* run_live is exhausted: the "async for" ends and the task returns
DownstreamEnds(t) ==
    /\ Downstream(t)
    /\ downstream_tasks' = [downstream_tasks EXCEPT ![t].status = "ended"]
    /\ UNCHANGED outbox
    /\ ClientRest

\* receive_text raises WebSocketDisconnect: handle_messages returns
WebSocketDisconnects ==
    /\ handling /\ ws_open
    /\ handling' = FALSE
    /\ ws_open' = FALSE
    /\ UNCHANGED <<client, live_queues, downstream_tasks, adk_sessions, outbox,
                   camera_feed, uuids, nClient, last_message, safetyVars>>
    /\ UNCHANGED <<turnVars, toolVars, opVars, connVars>>

\* websocket_endpoint (main.py), "finally": ConnectionManager.disconnect ->
\* cleanup, once handle_messages is over
Cleanup ==
    /\ ~handling
    /\ SessionActive(client)
    /\ live_queues' = QueueClosed(live_queues, client.live_queue)
    /\ downstream_tasks' = TaskCancelled(downstream_tasks, client.downstream_task)
    /\ client' = [client EXCEPT !.is_session_active = FALSE]
    /\ UNCHANGED <<adk_sessions, outbox, camera_feed, handling, ws_open, uuids,
                   nClient, last_message, safetyVars>>
    /\ UNCHANGED <<turnVars, toolVars, opVars, connVars>>

\* one client connection from accept to cleanup
NextClient ==
    \/ \E manual_ok \in BOOLEAN, create_ok \in BOOLEAN, audit_ok \in BOOLEAN :
           HandleStartSession(manual_ok, create_ok, audit_ok)
    \/ \E audit_ok \in BOOLEAN : HandleEndSession(audit_ok)
    \/ HandleAudioData(max_chunk_size)
    \/ HandleVideoFrame(max_frame_size)
    \/ \E n \in {0, 2} : HandleTextMessage(n)
    \/ \E t \in 1..MaxMessages : DownstreamEvent(t)
    \/ \E t \in 1..MaxMessages : DownstreamFails(t)
    \/ \E t \in 1..MaxMessages : DownstreamEnds(t)
    \/ WebSocketDisconnects
    \/ Cleanup

---------------------------------------------------------------------------
(* app/work_orders.py: the store operations, as the tools and the REST     *)
(* layer call them.                                                        *)

\* what a request may ask for
OrderInputs ==
    {[equipment_id |-> "pump_3", priority |-> "high", description |-> "leak"],
     [equipment_id |-> "fan_1", priority |-> "low", description |-> "noise"]}

\* order ids a caller may name: the clock values ids are made of
OrderIds == 1..MaxClock

NoOp == [op |-> "none", order_id |-> 0, found |-> FALSE]

InitOps == last_op = NoOp

Stored == Len(pending_orders) + Len(approved_orders) + Len(completed_orders)

\* get_all_orders(): _load(APPROVED_ORDERS_PATH)
get_all_orders == approved_orders

FirstOrder(orders, order_id) == IF orders = <<>> THEN 0 ELSE 1

\* for i, order in enumerate(orders): if order["order_id"] == order_id; the
\* first index that matches, 0 when the loop ends without a match
FirstIndex(orders, order_id) ==
    IF \E i \in 1..Len(orders) : orders[i].order_id = order_id
    THEN CHOOSE i \in 1..Len(orders) :
             /\ orders[i].order_id = order_id
             /\ \A j \in 1..(i - 1) : orders[j].order_id # order_id
    ELSE 0

\* list.pop(i)
Pop(orders, i) == SubSeq(orders, 1, i - 1) \o SubSeq(orders, i + 1, Len(orders))

ApprovedStale(order) == [order EXCEPT !.approved_at = now]

ApprovedNewId(order) ==
    [order EXCEPT !.status = "approved", !.approved_at = now,
                  !.order_id = now + 1]

\* approve_pending_order: order["status"], order["approved_at"]
Approved(order) == [order EXCEPT !.status = "approved", !.approved_at = now]

\* complete_order: order["status"], and the new key order["completed_at"]
Completed(order) ==
    [order EXCEPT !.status = "completed"] @@ ("completed_at" :> now)

\* "create_work_order" in user.get("permissions", []): verify_badge creates
\* for such a user and escalates for any other
MayCreateOrders(user) == "create_work_order" \in user.permissions

storeRest == <<active_sessions, pending_work_order, adk_state, nCalls,
               request, last_call>>

\* create_work_order(...): an approved order for an authorized requester
CreateWorkOrder(input, user) ==
    /\ Stored < MaxOrders
    /\ LET order == NewApprovedOrder(input.equipment_id, input.priority,
                                     input.description,
                                     RequestedBy(user.id, BadgeName, user))
       IN /\ approved_orders' = Append(approved_orders, order)
          /\ last_op' = [op |-> "create_work_order", order_id |-> order.order_id,
                         found |-> TRUE]
    /\ UNCHANGED <<pending_orders, completed_orders, now, storeRest>>
    /\ UNCHANGED <<turnVars, connVars, restVars>>

\* escalate_work_order(...): a pending order for the supervisor
EscalateWorkOrder(input, user) ==
    /\ Stored < MaxOrders
    /\ LET order == NewEscalatedOrder(input.equipment_id, input.priority,
                                      input.description,
                                      RequestedBy(user.id, BadgeName, user),
                                      "sup_007")
       IN /\ pending_orders' = Append(pending_orders, order)
          /\ last_op' = [op |-> "escalate_work_order", order_id |-> order.order_id,
                         found |-> TRUE]
    /\ UNCHANGED <<approved_orders, completed_orders, now, storeRest>>
    /\ UNCHANGED <<turnVars, connVars, restVars>>

\* approve_pending_order(order_id)
ApprovePendingOrder(order_id) ==
    /\ LET i == FirstIndex(pending_orders, order_id)
       IN IF i = 0
          THEN UNCHANGED <<pending_orders, approved_orders>>
          ELSE /\ approved_orders' = Append(approved_orders, Approved(pending_orders[i]))
               /\ pending_orders' = Pop(pending_orders, i)
    /\ last_op' = [op |-> "approve_pending_order", order_id |-> order_id,
                   found |-> FirstIndex(pending_orders, order_id) # 0]
    /\ UNCHANGED <<completed_orders, now, storeRest>>
    /\ UNCHANGED <<turnVars, connVars, restVars>>

\* complete_order(order_id)
CompleteOrder(order_id) ==
    /\ LET i == FirstIndex(approved_orders, order_id)
       IN IF i = 0
          THEN UNCHANGED <<approved_orders, completed_orders>>
          ELSE /\ completed_orders' = Append(completed_orders, Completed(approved_orders[i]))
               /\ approved_orders' = Pop(approved_orders, i)
    /\ last_op' = [op |-> "complete_order", order_id |-> order_id,
                   found |-> FirstIndex(approved_orders, order_id) # 0]
    /\ UNCHANGED <<pending_orders, now, storeRest>>
    /\ UNCHANGED <<turnVars, connVars, restVars>>

NextOrders ==
    \/ \E input \in OrderInputs, user \in Users :
           MayCreateOrders(user) /\ CreateWorkOrder(input, user)
    \/ \E input \in OrderInputs, user \in Users :
           ~MayCreateOrders(user) /\ EscalateWorkOrder(input, user)
    \/ \E order_id \in OrderIds : ApprovePendingOrder(order_id)
    \/ \E order_id \in OrderIds : CompleteOrder(order_id)
    \/ ClockTick

Init ==
    InitTurn /\ InitTools /\ InitOps /\ InitConn /\ InitSafety /\ InitClient

Next == NextTurn

Spec == Init /\ [][Next]_vars

\* the event loop runs every task that is ready, and time passes
\* the tool-call router and the work-order stores
SpecTools == Init /\ [][NextTools]_vars

\* the work-order stores under their four operations
SpecOrders == Init /\ [][NextOrders]_vars

\* create_session and the connection lifecycle of the LiveSession objects
SpecConn == Init /\ [][NextConn]_vars

\* the send operations
SpecSend == Init /\ [][NextSend]_vars

\* the sessions under failures
SpecFail == Init /\ [][NextFail]_vars

\* the resume handle of the sessions
SpecResume == Init /\ [][NextResume]_vars

\* log_safety_event on both dispatch paths
SpecSafety == Init /\ [][NextSafety]_vars

\* one client connection
SpecClient == Init /\ [][NextClient]_vars

FairSpec ==
    /\ Spec
    /\ WF_vars(Tick)
    /\ WF_vars(\E t \in TimerIds, suspends \in BOOLEAN : TimerFire(t, suspends))

---------------------------------------------------------------------------
(* Properties of the turn machine.                                         *)

TextFrags == 1 .. (nextFrag - 1)

\* the places of history that hold text part f
Places(f) ==
    {<<i, j>> \in (DOMAIN ls.history) \X (1 .. nextFrag) :
        j \in DOMAIN ls.history[i].parts /\ ls.history[i].parts[j] = f}

\* the backend sends nothing more
BackendSilent == nResponses = MaxResponses \/ receive_pc = "stopped"

\* C1: _finalize_turn is idempotent.  In every reachable state, a second
\* call right after a first changes neither history, nor the accumulator,
\* nor the number of on_turn_complete calls; a call made while no turn is
\* in progress changes neither history nor the accumulator; a call appends
\* at most one entry; and between two fragments a run appends at most one
\* entry and calls on_turn_complete at most once.
C1_FinalizeIdempotent ==
    LET a == FinalizeTurn(ls)
        b == FinalizeTurn(a)
    IN /\ Len(a.history) <= Len(ls.history) + 1
       /\ a.on_turn_complete_calls <= ls.on_turn_complete_calls + 1
       /\ b.history = a.history
       /\ b.current_ai_response_parts = a.current_ai_response_parts
       /\ b.on_turn_complete_calls = a.on_turn_complete_calls
       /\ ~ls.turn_in_progress =>
              /\ a.history = ls.history
              /\ a.current_ai_response_parts = ls.current_ai_response_parts
       /\ obs.entriesSinceFrag <= 1
       /\ obs.notifiedSinceFrag <= 1

\* _finalize_turn was called twice with no fragment in between, and the
\* first call wrote an entry
C1_Witness ==
    /\ obs.finalizeCalls >= 2
    /\ obs.entriesSinceFrag = 1
    /\ obs.notifiedSinceFrag = 1

\* C2: when both the native turn_complete signal and the expiry of the idle
\* timer occur for one turn, the turn is finalized by exactly one of them:
\* on_turn_complete is called once and history gains at most one entry.
C2_NativeTimerRace ==
    (obs.turnNative /\ obs.turnTimer) =>
        /\ obs.turnNotified = 1
        /\ obs.turnEntries <= 1

\* both signals occurred for one turn, and the turn wrote its entry
C2_Witness ==
    /\ obs.turnNative
    /\ obs.turnTimer
    /\ obs.turnNotified = 1
    /\ obs.turnEntries = 1

\* C3: while the session is connected, every text part received is
\* committed exactly once: it is never twice in history, and once the turn
\* in which it arrived is finalized it is in the entry that finalization
\* wrote.
C3_CommittedExactlyOnce ==
    ls.running =>
        \A f \in TextFrags :
            /\ Cardinality(Places(f)) <= 1
            /\ fragTurn[f] <= ls.on_turn_complete_calls =>
                  \E p \in Places(f) : histTurn[p[1]] = fragTurn[f]

\* C4: every finalization of a turn delivers the turn-complete
\* notification: outside the receive loop's own await of the callback,
\* every on_turn_complete call made has run to its end.
C4_NotificationDelivered ==
    (ls.running /\ receive_pc # "on_turn_complete") =>
        ls.on_turn_complete_done = ls.on_turn_complete_calls

\* C5: a turn in progress when the backend falls silent is finalized (the
\* idle timer fires), and a turn is finalized at most once: one
\* on_turn_complete call, at most one entry.
C5_IdleTimerFinalizes ==
    /\ (ls.turn_in_progress /\ ls.running /\ BackendSilent)
           ~> (~ls.turn_in_progress \/ ~ls.running)
    /\ [](obs.turnNotified <= 1 /\ obs.turnEntries <= 1)

\* the timer finalized a turn that the backend left unfinished
C5_Witness ==
    /\ obs.fallback
    /\ ~obs.turnNative
    /\ BackendSilent
    /\ ls.running
    /\ ~ls.turn_in_progress
    /\ Len(ls.history) = 1

\* C6: the idle timer is a debounce.  At most one timer task is asleep; the
\* timer asleep was started no earlier than the last fragment arrived; and
\* the timer finalizes a turn only when a full timeout has passed since the
\* last fragment arrived.
C6_Debounce ==
    /\ Cardinality(SleepingTasks(ls)) <= 1
    /\ \A t \in SleepingTasks(ls) : ls.tasks[t] <= sinceFragment
    /\ obs.fallbackAge = turn_complete_timeout

\* a fragment restarted a timer that had run for part of its timeout, and
\* later the timer finalized a turn
C6_Witness ==
    /\ obs.debounced
    /\ obs.fallback

---------------------------------------------------------------------------
(* Properties of the tool-call router.                                     *)

\* this step is a tool call (last_call' describes it)
ToolStep == nCalls' = nCalls + 1

InDirectory(id) == \E u \in Users : u.id = id

MayCreate(id) == \E u \in Users : u.id = id /\ "create_work_order" \in u.permissions

\* the pending request of the session the last call was made for
PendingNow(c) ==
    IF c.path = "live" THEN pending_work_order[c.sid] ELSE adk_state[c.sid].value

\* the same, in the state a step leaves
PendingAfter(c) ==
    IF c.path = "live" THEN pending_work_order'[c.sid] ELSE adk_state'[c.sid].value

Appended(old, new) == SubSeq(new, Len(old) + 1, Len(new))

Grows(old, new) == Len(new) >= Len(old) /\ SubSeq(new, 1, Len(old)) = old

\* the order carries the fields of the dict d (a stored pending request)
Carries(o, d) ==
    /\ o.equipment = Get(d, "equipment_id", "?")
    /\ o.priority = Get(d, "priority", "?")
    /\ o.description = Get(d, "description", "?")

\* a verify_badge call made for a session that holds a request stored by
\* create_work_order
VerifyOfRequest(c) ==
    /\ c.fn = "verify_badge"
    /\ c.ctx
    /\ c.requested
    /\ c.pending_before # {}

\* C7: create_work_order then verify_badge for an employee of the directory
\* who holds create_work_order: exactly one order is appended to the
\* approved store, with status approved and the equipment, priority and
\* description of the pending request; the pending and completed stores are
\* unchanged; the session's pending request is cleared; the result is
\* authorized, with the order's id.
C7_AuthorizedFlow ==
    [][(ToolStep /\ VerifyOfRequest(last_call') /\ MayCreate(last_call'.employee_id)) =>
          /\ Grows(approved_orders, approved_orders')
          /\ Len(approved_orders') = Len(approved_orders) + 1
          /\ LET o == approved_orders'[Len(approved_orders')]
             IN /\ o.status = "approved"
                /\ Carries(o, last_call'.pending_before)
                /\ o.requested_by.id = last_call'.employee_id
                /\ last_call'.status = "authorized"
                /\ last_call'.order_id = o.order_id
          /\ pending_orders' = pending_orders
          /\ completed_orders' = completed_orders
          /\ PendingAfter(last_call') = {}
      ]_vars

\* an authorized badge resolved a stored request
C7_Witness ==
    /\ VerifyOfRequest(last_call)
    /\ last_call.status = "authorized"
    /\ Len(approved_orders) >= 1
    /\ approved_orders[Len(approved_orders)].equipment = "pump_3"

\* C8: create_work_order then verify_badge for an employee of the directory
\* who does not hold create_work_order: exactly one order is appended to the
\* pending store, with status pending_approval and an escalation target;
\* the approved store is unchanged; the session's pending request is
\* cleared; the result is escalated, with the order's id.
C8_EscalatedFlow ==
    [][(ToolStep /\ VerifyOfRequest(last_call')
          /\ InDirectory(last_call'.employee_id)
          /\ ~MayCreate(last_call'.employee_id)) =>
          /\ Grows(pending_orders, pending_orders')
          /\ Len(pending_orders') = Len(pending_orders) + 1
          /\ LET o == pending_orders'[Len(pending_orders')]
             IN /\ o.status = "pending_approval"
                /\ o.escalated_to \notin {"None", ""}
                /\ Carries(o, last_call'.pending_before)
                /\ last_call'.status = "escalated"
                /\ last_call'.order_id = o.order_id
          /\ approved_orders' = approved_orders
          /\ completed_orders' = completed_orders
          /\ PendingAfter(last_call') = {}
      ]_vars

\* a badge without the permission escalated a stored request
C8_Witness ==
    /\ VerifyOfRequest(last_call)
    /\ last_call.status = "escalated"
    /\ Len(pending_orders) >= 1
    /\ pending_orders[Len(pending_orders)].escalated_to = "sup_007"

\* C9: verify_badge with an employee id that is not in the directory
\* returns badge_not_found and changes neither a pending request nor a
\* store; a later verify_badge of the session with a badge of the directory
\* writes an order with the equipment, priority and description first
\* requested; a tool call empties a pending request only with the outcome
\* authorized or escalated.
C9_NotFoundRetry ==
    [][ToolStep =>
          /\ (last_call'.fn = "verify_badge" /\ ~InDirectory(last_call'.employee_id)) =>
                 /\ last_call'.status = "badge_not_found"
                 /\ UNCHANGED <<pending_work_order, adk_state, pending_orders,
                                approved_orders, completed_orders>>
          /\ (VerifyOfRequest(last_call') /\ last_call'.retried
                /\ InDirectory(last_call'.employee_id)) =>
                 LET new == Appended(pending_orders, pending_orders')
                              \o Appended(approved_orders, approved_orders')
                 IN /\ Len(new) = 1
                    /\ Carries(new[1], StoreRequest(last_call'.request_before))
          /\ (\E sid \in Sessions :
                 \/ pending_work_order[sid] # {} /\ pending_work_order'[sid] = {}
                 \/ adk_state[sid].value # {} /\ adk_state'[sid].value = {}) =>
                 last_call'.status \in {"authorized", "escalated"}
      ]_vars

\* after badge_not_found, a badge of the directory resolved the request
C9_Witness ==
    /\ VerifyOfRequest(last_call)
    /\ last_call.retried
    /\ last_call.status \in {"authorized", "escalated"}

\* C10: the create_work_order tool leaves the three stores as they are: it
\* stores the request as the session's pending request, in place of any
\* earlier one, and returns badge_verification_required.  The stores gain
\* an order only in a verify_badge call whose badge is in the directory.
C10_TwoPhase ==
    [][/\ (ToolStep /\ last_call'.fn = "create_work_order") =>
              /\ UNCHANGED <<pending_orders, approved_orders, completed_orders>>
              /\ last_call'.status = "badge_verification_required"
              /\ Holds(last_call'.path, last_call'.sid, last_call'.ctx) =>
                     PendingAfter(last_call') = StoreRequest(last_call'.arguments)
       /\ (Len(pending_orders') + Len(approved_orders') + Len(completed_orders')
             > Len(pending_orders) + Len(approved_orders) + Len(completed_orders)) =>
              /\ ToolStep
              /\ last_call'.fn = "verify_badge"
              /\ InDirectory(last_call'.employee_id)
      ]_vars

\* a second create_work_order replaced the pending request of the session
C10_Witness ==
    /\ last_call.fn = "create_work_order"
    /\ last_call.requested
    /\ last_call.pending_before # {}
    /\ PendingNow(last_call) = StoreRequest(last_call.arguments)
    /\ PendingNow(last_call) # last_call.pending_before
    /\ Len(pending_orders) + Len(approved_orders) + Len(completed_orders) = 0

---------------------------------------------------------------------------
(* Properties of the connection lifecycle (SpecConn, SpecSend) and of the  *)
(* work-order stores (SpecOrders).                                         *)
---------------------------------------------------------------------------

\* the tool responses sent on stream h for the call fc
ResponsesTo(h, fc) ==
    {j \in 1..Len(streams[h].sent) :
        /\ streams[h].sent[j].kind = "tool_response"
        /\ streams[h].sent[j].id = fc.id
        /\ streams[h].sent[j].name = fc.name}

\* the times the call fc arrived on stream h
ArrivalsOf(h, fc) ==
    {i \in 1..Len(streams[h].tool_calls) : streams[h].tool_calls[i] = fc}

\* C11: every tool-call request that has arrived on a stream has been
\* answered by exactly one tool response on that stream with its call id and
\* function name, by the time the receive loop is ready for the next event
\* (inbound events are handled one at a time, so that is every state).
C11_ToolCallAnswered ==
    \A h \in StreamIds : \A fc \in ToolCalls :
        Cardinality(ResponsesTo(h, fc)) = Cardinality(ArrivalsOf(h, fc))

\* the replay messages among what was sent on stream h
Replays(h) ==
    {j \in 1..Len(streams[h].sent) : streams[h].sent[j].kind = "replay"}

\* C12: a stream opened by connect() with N >= 1 turns of history has, as
\* its first message, one replay that holds exactly those N turns in order
\* and is marked turn-complete, and no other replay; a stream opened with
\* empty history carries no replay at all.
C12_ReplayOnConnect ==
    \A h \in StreamIds :
        LET turns == streams[h].replayed
        IN IF turns # <<>>
           THEN /\ Replays(h) = {1}
                /\ streams[h].sent[1] =
                       [kind |-> "replay", turns |-> turns, turn_complete |-> TRUE]
           ELSE Replays(h) = {}

\* a stream was opened on a history of two turns, replayed them, and then
\* carried a live message
C12_Witness ==
    \E h \in StreamIds :
        /\ Len(streams[h].replayed) >= 2
        /\ Len(streams[h].sent) >= 2
        /\ streams[h].sent[1].kind = "replay"
        /\ Len(streams[h].sent[1].turns) = Len(streams[h].replayed)

IsPrefix(a, b) == Len(a) <= Len(b) /\ SubSeq(b, 1, Len(a)) = a

\* C13: the history kept for a session id only ever grows at its end, by
\* any step; create_session on an id that already has a history leaves it
\* as it is, and every LiveSession holds the history kept for its own id.
C13_HistorySurvives ==
    [][/\ \A sid \in DOMAIN session_histories :
              /\ sid \in DOMAIN session_histories'
              /\ IsPrefix(session_histories[sid], session_histories'[sid])
       /\ \A o \in 1..Len(live_sessions') :
              live_sessions'[o].history = live_sessions'[o].session_id
       /\ \A sid \in DOMAIN session_histories :
              CreateLiveSession(sid) =>
                  session_histories'[sid] = session_histories[sid]]_vars

\* a second LiveSession of a session id was connected and replayed a user
\* turn and a model turn that the first one had appended
C13_Witness ==
    \E o1, o2 \in Objs : \E h \in StreamIds :
        /\ o1 < o2
        /\ live_sessions[o1].session_id = live_sessions[o2].session_id
        /\ streams[h].owner = o2
        /\ \E i, j \in 1..Len(streams[h].replayed) :
               /\ i < j
               /\ streams[h].replayed[i].role = "user"
               /\ streams[h].replayed[j].role = "model"

\* the object has an open stream and a running receive loop
Live(o) ==
    /\ Connected(live_sessions[o])
    /\ streams[live_sessions[o].session].state = "open"
    /\ session_tasks[live_sessions[o].receive_task].status = "running"

\* C14: no two connected LiveSession objects have the same session_id.
C14_OneLivePerSessionId ==
    \A o1, o2 \in Objs :
        (Live(o1) /\ Live(o2) /\
         live_sessions[o1].session_id = live_sessions[o2].session_id) => o1 = o2

\* every stored order, store by store
AllOrders == pending_orders \o approved_orders \o completed_orders

\* C15: every order_id is present exactly once in the three stores taken
\* together, hence in exactly one store and once in it.
C15_OneStorePerOrderId ==
    \A i, j \in 1..Len(AllOrders) :
        AllOrders[i].order_id = AllOrders[j].order_id => i = j

\* what an order keeps through every move
Core(order) ==
    [order_id |-> order.order_id, equipment |-> order.equipment,
     priority |-> order.priority, description |-> order.description,
     requested_by |-> order.requested_by]

Cores(orders) == {Core(orders[i]) : i \in 1..Len(orders)}

\* orders of the list with that id, equipment, priority, description and
\* requester
CountIn(orders, c) == Cardinality({i \in 1..Len(orders) : Core(orders[i]) = c})

\* C16: by any step and for any identity (order_id, equipment, priority,
\* description, requester), the orders of that identity are never fewer
\* than before in the three stores together, never fewer in approved and
\* completed together, never fewer in completed; and completed gains such
\* an order only as approved loses one while pending is untouched.
C16_StatusMonotonic ==
    [][\A c \in Cores(AllOrders) \cup Cores(AllOrders') :
          LET p0 == CountIn(pending_orders, c)
              a0 == CountIn(approved_orders, c)
              c0 == CountIn(completed_orders, c)
              p1 == CountIn(pending_orders', c)
              a1 == CountIn(approved_orders', c)
              c1 == CountIn(completed_orders', c)
          IN /\ p1 + a1 + c1 >= p0 + a0 + c0
             /\ a1 + c1 >= a0 + c0
             /\ c1 >= c0
             /\ c1 > c0 => (a0 - a1 = c1 - c0 /\ p1 = p0)]_vars

\* an escalated order has been approved and then completed
C16_Witness ==
    /\ last_op.op = "complete_order"
    /\ last_op.found
    /\ \E i \in 1..Len(completed_orders) :
           /\ completed_orders[i].order_id = last_op.order_id
           /\ completed_orders[i].escalated_to = "sup_007"
           /\ completed_orders[i].status = "completed"
           /\ completed_orders[i].approved_at # 0

\* C17: disconnect() on a session that does not run (never connected, or
\* disconnected before) changes no object, stream, task or history: no
\* stream is closed again, and the session stays not running, without
\* stream and without timer.
C17_DisconnectIdempotent ==
    [][\A o \in Objs :
          (~live_sessions[o].running /\ DisconnectSession(o)) =>
              /\ UNCHANGED <<live_sessions, streams, session_tasks, session_histories>>
              /\ ~live_sessions'[o].running
              /\ live_sessions'[o].session = 0
              /\ live_sessions'[o].session_context = 0
              /\ live_sessions'[o].turn_complete_timer = 0]_vars

\* disconnect() has just been called on a session that had been connected
\* and disconnected before: its stream was closed once
C17_Witness ==
    /\ last_send.fn = "disconnect"
    /\ ~last_send.connected
    /\ \E h \in StreamIds :
           /\ streams[h].owner = last_send.obj
           /\ streams[h].state = "closed"
           /\ streams[h].closes = 1

\* C18: once disconnect() has returned (the session does not run), every
\* receive, heartbeat and timer task the session created has ended.
C18_DisconnectJoinsTasks ==
    \A o \in Objs :
        ~live_sessions[o].running =>
            \A t \in TaskIds :
                session_tasks[t].obj = o => session_tasks[t].status = "done"

\* a send_audio, send_video_frame or send_text call on the object o
SendCall(o) ==
    \/ \E n \in AudioSizes : SendAudio(o, n)
    \/ \E n \in FrameSizes : SendVideoFrame(o, n)
    \/ \E text \in Texts : SendText(o, text)

\* C19: a send on a session without stream or not running leaves every
\* stream, every history and every object (turn state and evidence frame
\* included) as they were.
C19_SendWhenNotConnected ==
    [][\A o \in Objs :
          ((live_sessions[o].session = 0 \/ ~live_sessions[o].running)
              /\ SendCall(o)) =>
              UNCHANGED <<streams, session_histories, live_sessions, session_tasks>>]_vars

\* send_text has just been called on a session that was connected and then
\* disconnected, and nothing went out
C19_Witness ==
    /\ last_send.fn = "send_text"
    /\ ~last_send.connected
    /\ ~last_send.forwarded
    /\ \E h \in StreamIds :
           streams[h].owner = last_send.obj /\ streams[h].state = "closed"

\* C20: send_audio of n bytes on a connected session with an open stream
\* adds nothing to the stream when n = 0 and otherwise exactly one audio
\* message, whose data is the first min(n, 32768) bytes of the payload;
\* no other stream changes.
C20_AudioTruncated ==
    [][\A o \in Objs : \A n \in AudioSizes :
          (/\ live_sessions[o].session # 0
           /\ live_sessions[o].running
           /\ SendAudio(o, n)) =>
              LET h == live_sessions[o].session
              IN /\ streams[h].state = "open"
                 /\ streams' = [streams EXCEPT ![h].sent =
                        IF n = 0 THEN @
                        ELSE Append(@, [kind |-> "audio",
                                        data |-> [of |-> n,
                                                  len |-> Min(n, max_chunk_size)]])]]_vars

\* a payload of 40960 bytes went out as its first 32768 bytes
C20_Witness ==
    /\ last_send.fn = "send_audio"
    /\ last_send.forwarded
    /\ \E h \in StreamIds : \E j \in 1..Len(streams[h].sent) :
           /\ streams[h].sent[j].kind = "audio"
           /\ streams[h].sent[j].data = [of |-> 40960, len |-> max_chunk_size]

---------------------------------------------------------------------------
(* Properties of the send operations (SpecSend) and of the sessions under  *)
(* failures (SpecFail).                                                    *)

\* C21: on a connected session send_video_frame forwards nothing for an
\* empty frame or a frame of more than 512 KiB, and forwards any other
\* frame whole, as exactly one message.
C21_VideoFrameForwarding ==
    [][\A o \in Objs, n \in FrameSizes :
          (Connected(live_sessions[o]) /\ SendVideoFrame(o, n)) =>
              IF n = 0 \/ n > 524288
              THEN UNCHANGED streams
              ELSE streams' =
                       [streams EXCEPT ![live_sessions[o].session].sent =
                           Append(@, [kind |-> "video",
                                      data |-> [of |-> n, len |-> n]])]]_vars

\* a frame of 512 KiB went out whole, and a later frame of one byte more
\* on a connected session was skipped
C21_Witness ==
    /\ last_send.fn = "send_video_frame"
    /\ last_send.connected /\ ~last_send.forwarded
    /\ last_send.input = Payload(max_frame_size + 1)
    /\ \E j \in 1..Len(streams[live_sessions[last_send.obj].session].sent) :
           streams[live_sessions[last_send.obj].session].sent[j] =
               [kind |-> "video", data |-> Payload(max_frame_size)]

\* C22: send_text with accepted text on a connected session appends one
\* user turn to the history in the call itself, whether or not the send
\* then succeeds, and the message it sends carries that turn alone.
C22_TextTurnRecordedAndSentAlone ==
    [][\A o \in Objs :
          (Connected(live_sessions[o]) /\ SendText(o, Str(0, 2, 0))) =>
              LET obj == live_sessions[o]
                  old == session_histories[obj.history]
                  new == session_histories'[obj.history]
              IN /\ Len(new) = Len(old) + 1
                 /\ SubSeq(new, 1, Len(old)) = old
                 /\ new[Len(new)].role = "user"
                 /\ UNCHANGED live_sessions
                 /\ IF streams[obj.session].state = "open"
                    THEN streams' =
                             [streams EXCEPT ![obj.session].sent =
                                 Append(@, [kind |-> "text",
                                            turns |-> <<new[Len(new)]>>,
                                            turn_complete |-> TRUE])]
                    ELSE UNCHANGED streams]_vars

\* a second text went out on a session whose history already held a turn
C22_Witness ==
    /\ last_send.fn = "send_text"
    /\ last_send.connected /\ last_send.forwarded
    /\ LET obj == live_sessions[last_send.obj]
           sent == streams[obj.session].sent
       IN /\ Len(session_histories[obj.history]) >= 2
          /\ sent[Len(sent)].kind = "text"
          /\ Len(sent[Len(sent)].turns) = 1

\* the user turns of the histories and of the text messages on the streams
RecordedTexts ==
    UNION {{session_histories[k][i].text :
               i \in {j \in 1..Len(session_histories[k]) :
                         session_histories[k][j].role = "user"}} :
           k \in DOMAIN session_histories}

ForwardedTexts ==
    UNION {{streams[h].sent[i].turns[1].text :
               i \in {j \in 1..Len(streams[h].sent) :
                         streams[h].sent[j].kind = "text"}} :
           h \in StreamIds}

\* C23: send_text forwards and records nothing for empty or blank input,
\* and no text it forwards or records is longer than 4000 characters.
C23_TextValidated ==
    [][/\ \A o \in Objs, text \in Texts :
              (SendText(o, text) /\ text.body = 0) =>
                  UNCHANGED <<streams, session_histories>>
       /\ \A text \in RecordedTexts' \cup ForwardedTexts' :
              text.lead + text.body + text.trail <= 4000]_vars

\* a text of 4001 letters was recorded as 4000, and a blank text sent on a
\* connected session afterwards was dropped
C23_Witness ==
    /\ last_send.fn = "send_text"
    /\ last_send.connected /\ ~last_send.forwarded
    /\ last_send.input = Str(1, 0, 0)
    /\ Str(0, 4000, 0) \in RecordedTexts \cap ForwardedTexts

\* C28: an exception raised while one inbound event is handled leaves the
\* receive loop listening: its task runs on, on a stream still open.
C28_LoopSurvivesHandlerError ==
    [][\A t \in TaskIds :
          (/\ live_sessions[session_tasks[t].obj].running
           /\ \/ ContentCallbackRaises(t)
              \/ \E fc \in ToolCalls : ToolCallEvent(t, fc)) =>
              /\ session_tasks'[t].status = "running"
              /\ streams'[session_tasks[t].stream].state = "open"
              /\ live_sessions'[session_tasks[t].obj].running]_vars

\* a receive loop took a second tool call after the first one raised, and
\* is still running
C28_Witness ==
    \E t \in TaskIds :
        /\ session_tasks[t].kind = "receive"
        /\ session_tasks[t].status = "running"
        /\ Len(streams[session_tasks[t].stream].tool_calls) >= 2

\* C29: a send that fails in send_audio, send_video_frame, send_text or the
\* heartbeat raises nothing to its caller and ends no task; a failed audio
\* or video send leaves the history, the turn flag and the accumulator as
\* they were.
C29_SendFailureCaught ==
    [][/\ \A o \in Objs :
              (Connected(live_sessions[o]) /\ SendRaises(live_sessions[o])) =>
                  /\ (\/ SendAudio(o, max_chunk_size)
                      \/ SendVideoFrame(o, max_frame_size)) =>
                         /\ ~last_send'.raised
                         /\ UNCHANGED <<session_histories, streams, session_tasks>>
                         /\ live_sessions'[o].turn_in_progress =
                                live_sessions[o].turn_in_progress
                         /\ live_sessions'[o].current_ai_response_parts =
                                live_sessions[o].current_ai_response_parts
                  /\ SendText(o, Str(0, 2, 0)) =>
                         /\ ~last_send'.raised
                         /\ UNCHANGED <<streams, session_tasks>>
       /\ \A t \in TaskIds :
              HeartbeatFails(t) => UNCHANGED <<session_tasks, live_sessions>>]_vars

\* an audio chunk was handed to a stream that had ended in the middle of a
\* turn: nothing went out and the call returned
C29_Witness ==
    /\ last_send.fn = "send_audio"
    /\ last_send.connected /\ ~last_send.forwarded /\ ~last_send.raised
    /\ last_send.input = Payload(max_chunk_size)
    /\ live_sessions[last_send.obj].turn_in_progress
    /\ live_sessions[last_send.obj].current_ai_response_parts > 0
    /\ streams[live_sessions[last_send.obj].session].state = "ended"

---------------------------------------------------------------------------
(* Properties of log_safety_event (SpecSafety).                            *)

\* the event records the last log_safety_event call stored, in memory or
\* on disk
StoredBy(c) ==
    {session_events[i] : i \in (c.events_before + 1)..Len(session_events)}
        \cup {audit_files[i].event : i \in (c.files_before + 1)..Len(audit_files)}

AllStored ==
    {session_events[i] : i \in 1..Len(session_events)}
        \cup {audit_files[i].event : i \in 1..Len(audit_files)}

\* C24: on every dispatch path log_safety_event stores a severity in
\* [1,5]: the argument when it lies in that range, 1 when it is smaller
\* and 5 when it is larger.
C24_SeverityClamped ==
    /\ \A e \in AllStored : e.severity \in 1..5
    /\ \A e \in StoredBy(last_tool) :
           e.severity = IF last_tool.severity < 1 THEN 1
                        ELSE IF last_tool.severity > 5 THEN 5
                        ELSE last_tool.severity

C26_AuditFailureTolerated ==
    (last_tool.path # "none" /\ ~last_tool.audit_ok) =>
        /\ last_tool.returned
        /\ last_tool.result.status = "logged"

---------------------------------------------------------------------------
(* Properties of the client connection (SpecClient).                       *)

\* the downstream tasks that stopped on their own: run_live raised or ended
Terminated ==
    {t \in 1..Len(downstream_tasks) :
        downstream_tasks[t].status \in {"failed", "ended"}}

StreamErrors ==
    {i \in 1..Len(outbox) : outbox[i] = ErrorMessage("Stream error")}

\* C27: every downstream task that stopped because its stream failed or
\* ended was reported to the client by exactly one error notification, and
\* nothing started a task in its place.
C27_FatalErrorSurfacedOnce ==
    /\ Cardinality(StreamErrors) = Cardinality(Terminated)
    /\ \A t \in Terminated :
           \A u \in 1..Len(downstream_tasks) :
               downstream_tasks[u].session_id = downstream_tasks[t].session_id
                   => u = t

Running == {t \in 1..Len(downstream_tasks) : downstream_tasks[t].status = "running"}

OpenQueues == {q \in 1..Len(live_queues) : ~live_queues[q].closed}

\* C30: a start_session that meets an active session is answered with an
\* error and creates no session, queue or task; audio, video and text that
\* meet no active session change nothing; so the connection never has more
\* than one running downstream task or more than one open queue.
C30_OneSessionPerConnection ==
    [][/\ \A manual_ok \in BOOLEAN, create_ok \in BOOLEAN, audit_ok \in BOOLEAN :
              (/\ client.is_session_active
               /\ HandleStartSession(manual_ok, create_ok, audit_ok)) =>
                  /\ outbox' = Append(outbox, ErrorMessage("Session already active"))
                  /\ UNCHANGED <<client, live_queues, downstream_tasks,
                                 adk_sessions, uuids, camera_feed, safetyVars>>
       /\ (/\ ~client.is_session_active
           /\ \/ HandleAudioData(max_chunk_size)
              \/ HandleVideoFrame(max_frame_size)
              \/ HandleTextMessage(2)) =>
              UNCHANGED <<client, live_queues, downstream_tasks, adk_sessions,
                          outbox, camera_feed, handling, uuids, safetyVars>>
       /\ Cardinality(Running') <= 1
       /\ Cardinality(OpenQueues') <= 1
       /\ Running' \subseteq {client'.downstream_task}
       /\ OpenQueues' \subseteq {client'.live_queue}]_vars

\* a second start_session was refused, the session was ended, and a video
\* frame that arrived afterwards was dropped
C30_Witness ==
    /\ \E i \in 1..Len(outbox) : outbox[i] = ErrorMessage("Session already active")
    /\ Len(live_queues) = 1 /\ Len(downstream_tasks) = 1
    /\ Cardinality(adk_sessions) = 1
    /\ last_message.type = "video_frame"
    /\ ~last_message.active /\ ~last_message.forwarded
    /\ camera_feed = NoFrame

---------------------------------------------------------------------------
(* Further properties of the work-order stores (SpecOrders).               *)

\* the order ids held by a store
IdsOf(orders) == {orders[i].order_id : i \in 1..Len(orders)}

\* C31: whatever the stores hold, the result of get_all_orders contains
\* every order of the pending, the approved and the completed store.
C31_GetAllOrdersComplete ==
    \A i \in 1..Len(AllOrders) :
        \E j \in 1..Len(get_all_orders) : get_all_orders[j] = AllOrders[i]

\* C33: approve_pending_order with an id the pending store does not hold,
\* and complete_order with an id the approved store does not hold, return
\* None and leave the three stores as they were.
C33_AbsentIdNoEffect ==
    [][\A order_id \in OrderIds :
          /\ (order_id \notin IdsOf(pending_orders)
              /\ ApprovePendingOrder(order_id)) =>
                 /\ ~last_op'.found
                 /\ UNCHANGED <<pending_orders, approved_orders, completed_orders>>
          /\ (order_id \notin IdsOf(approved_orders)
              /\ CompleteOrder(order_id)) =>
                 /\ ~last_op'.found
                 /\ UNCHANGED <<pending_orders, approved_orders, completed_orders>>]_vars

\* complete_order was called for an order that is still pending, beside an
\* approved order of another id, and found nothing
C33_Witness ==
    /\ last_op.op = "complete_order"
    /\ ~last_op.found
    /\ last_op.order_id \in IdsOf(pending_orders)
    /\ approved_orders # <<>>
    /\ last_op.order_id \notin IdsOf(approved_orders)

\* C34: an approve_pending_order or complete_order call that finds its
\* order finds the only order of that id in the three stores: order ids
\* are unique.
C34_OrderNamedIsUnique ==
    [][\A order_id \in OrderIds :
          ((ApprovePendingOrder(order_id) \/ CompleteOrder(order_id))
           /\ last_op'.found) =>
              Cardinality({i \in 1..Len(AllOrders) :
                              AllOrders[i].order_id = order_id}) = 1]_vars

\* C38: every order of the pending store has status pending_approval,
\* every order of the approved store approved, every order of the completed
\* store completed.
C38_StatusMatchesStore ==
    /\ \A i \in 1..Len(pending_orders) :
           pending_orders[i].status = "pending_approval"
    /\ \A i \in 1..Len(approved_orders) :
           approved_orders[i].status = "approved"
    /\ \A i \in 1..Len(completed_orders) :
           completed_orders[i].status = "completed"

\* an escalated order has reached the completed store while an order
\* created as approved sits in the approved store
C38_Witness ==
    /\ \E i \in 1..Len(completed_orders) :
           completed_orders[i].escalated_to = "sup_007"
    /\ \E i \in 1..Len(approved_orders) :
           approved_orders[i].escalated_to # "sup_007"

---------------------------------------------------------------------------
(* Further properties of the turn machine (Spec).                          *)

\* the accumulator as _finalize_turn finds it in this step: a text part
\* whose on_text returns in the step has joined it first
AccumulatedNow ==
    IF TextReturn
    THEN Append(ls.current_ai_response_parts, Head(pending_parts).frag)
    ELSE ls.current_ai_response_parts

\* C32: a step that finalizes a turn calls on_turn_complete once, leaves
\* the state IDLE and the accumulator empty, and appends the accumulated
\* text parts, in arrival order, as one model entry, or nothing when there
\* are none; no history entry ever holds an audio part.
C32_FinalizeCommitsAccumulator ==
    [][/\ ls'.on_turn_complete_calls # ls.on_turn_complete_calls =>
              /\ ls'.on_turn_complete_calls = ls.on_turn_complete_calls + 1
              /\ ~ls'.turn_in_progress
              /\ ls'.current_ai_response_parts = <<>>
              /\ ls'.history =
                     IF AccumulatedNow = <<>> THEN ls.history
                     ELSE Append(ls.history,
                                 [role |-> "model", parts |-> AccumulatedNow])
       /\ \A i \in 1..Len(ls'.history) :
              /\ ls'.history[i].parts # <<>>
              /\ \A j \in 1..Len(ls'.history[i].parts) :
                     /\ ls'.history[i].parts[j] # 0
                     /\ j > 1 => ls'.history[i].parts[j - 1] < ls'.history[i].parts[j]
       /\ ls'.on_turn_complete_calls = ls.on_turn_complete_calls =>
              /\ Len(ls'.history) = Len(ls.history)]_vars

\* a turn of two text parts left one entry, and an audio-only turn after it
\* was finalized without leaving one
C32_Witness ==
    /\ Len(ls.history) = 1
    /\ Len(ls.history[1].parts) = 2
    /\ ls.on_turn_complete_calls = 2
    /\ ~ls.turn_in_progress
    /\ ls.current_ai_response_parts = <<>>
    /\ nextFrag = 3

\* C36: whenever no turn is in progress the accumulator of text parts is
\* empty.
C36_IdleAccumulatorEmpty ==
    ~ls.turn_in_progress => ls.current_ai_response_parts = <<>>

---------------------------------------------------------------------------
(* Properties of the resume handle (SpecResume).                           *)

\* C37: a session is created without a resume handle, and a handle once
\* captured never reverts to absent: every step leaves the handle of a
\* session as it was or replaces it with a handle granted in that step.
C37_ResumeHandleKept ==
    [][/\ \A o \in Objs' \ Objs : live_sessions'[o].resume_handle = 0
       /\ \A o \in Objs :
              \/ live_sessions'[o].resume_handle = live_sessions[o].resume_handle
              \/ \E t \in TaskIds, h \in 1..2 :
                     /\ session_tasks[t].obj = o
                     /\ ResumptionUpdateEvent(t, [present |-> TRUE, new_handle |-> h])
                     /\ live_sessions'[o].resume_handle = h]_vars

---------------------------------------------------------------------------
(* A further property of the tool calls (SpecTools).                       *)

\* C35: a verify_badge call made for a session with no request awaiting a
\* badge (none was made, or the last one was resolved) adds no order to
\* the stores, so no request yields more than one order.
C35_OneOrderPerRequest ==
    [][(ToolStep /\ last_call'.fn = "verify_badge" /\ ~last_call'.requested)
          => Len(pending_orders') + Len(approved_orders') + Len(completed_orders')
                 = Stored]_vars

---------------------------------------------------------------------------
(* Further properties of send_text (SpecSend) and of the client connection *)
(* (SpecClient).                                                           *)

\* C39: every user turn send_text has recorded in a history, and every
\* text it has put on a stream, is non-empty.
C39_NoEmptyUserTurn ==
    \A text \in RecordedTexts \cup ForwardedTexts : StrLen(text) > 0

\* the downstream task of the connection's session has stopped on its own
DownstreamOver ==
    /\ client.downstream_task # 0
    /\ downstream_tasks[client.downstream_task].status \in {"failed", "ended"}

\* C40: once the downstream task of its session has ended on its own, the
\* connection does not go on counting the session as active: the next
\* start_session is not refused with "Session already active".
C40_RestartAfterStreamEnd ==
    [][\A manual_ok \in BOOLEAN, create_ok \in BOOLEAN, audit_ok \in BOOLEAN :
          (DownstreamOver /\ HandleStartSession(manual_ok, create_ok, audit_ok))
              => outbox' # Append(outbox, ErrorMessage("Session already active"))]_vars

====
